---- MODULE Spec2Model ----
(***************************************************************************)
(* PortfolioAPI: the controllers of projects, certifications and journey   *)
(* items over the record store (Supabase tables) and the blob store        *)
(* (Supabase Storage bucket 'project-images').                             *)
(*                                                                         *)
(* One request is one asynchronous task.  Every `await` of a controller    *)
(* is one step of the request: between two steps of a request any step of  *)
(* another request may run.  The outcome of a call to the record store or  *)
(* the blob store is chosen by the environment (\E ok \in BOOLEAN).        *)
(***************************************************************************)
EXTENDS Integers, Sequences, FiniteSets, TLC

\* ---------------------------------------------------------------- bounds
\* rows a table's BIGSERIAL may hand out
MaxId == 2
\* file names the blob store may hand out
MaxBlobs == 2
\* requests that arrive in one run
MaxRequests == 3
\* rows the tables hold when a list request arrives
MaxRows == 4
\* the highest page a list request asks for
MaxPage == 3
\* list requests that arrive in one run
MaxListRequests == 1
\* requests that arrive in one run at the routes with their middleware
MaxGateRequests == 1
\* requests that arrive in one run of writes followed by reads
MaxReadRequests == 2

\* the request slots (tasks that may be in flight together)
Reqs == {"r1", "r2"}

\* ---------------------------------------------------------------- values
NULL == "null"
\* image_url is a URL (a sequence of path segments) or null
NoImage == <<>>

Names == {"a", "b"}

\* skills as it arrives in the body: an array, or something else (a string)
SkillsArray == [isArray |-> TRUE, items |-> <<"js">>]
SkillsString == [isArray |-> FALSE, items |-> <<"js">>]

\* bodies of POST /api/projects (name and details always present)
CreateProjectBodies ==
    {[name |-> "a", details |-> "details of 1"],
     [name |-> "b", details |-> "details of 1", skills |-> SkillsArray,
      demo_link |-> "http://demo.io", github_link |-> ""]}

\* bodies of PUT /api/projects/:id after updateProjectValidation
UpdateProjectBodies ==
    {[details |-> "details of 2", skills |-> SkillsArray, github_link |-> "http://git.io"],
     [name |-> "b"]}

\* a date-time is <<day, hour>>; a DATE column holds <<day, 0>>; null is <<>>
NoDate == <<>>

\* bodies of POST /api/certifications (no validator is wired on this route)
CreateCertificationBodies ==
    {[title |-> "t1", issuer |-> "i1", issued_date |-> <<1, 0>>],
     [title |-> "t2", issuer |-> "i1", issued_date |-> <<1, 0>>,
      certification_id |-> "c-1", details |-> "", link_url |-> "http://cert.io"]}

\* bodies of PUT /api/certifications/:id after updateCertificationValidation
UpdateCertificationBodies ==
    {[title |-> "t1"],
     [title |-> "t2", issuer |-> "i1"],
     [issued_date |-> <<2, 1>>, details |-> "text"]}

\* bodies of POST /api/journey (no validator is wired on this route)
CreateJourneyBodies ==
    {[title |-> "t1", company_name |-> "c1", start_date |-> <<1, 0>>,
      details |-> "details of 1", journey_type |-> "Experience"],
     [title |-> "t2", company_name |-> "c1", start_date |-> <<1, 0>>, end_date |-> <<2, 0>>,
      details |-> "details of 1", journey_type |-> "Education"],
     [title |-> "t2", company_name |-> "c1", start_date |-> <<2, 0>>, end_date |-> <<1, 0>>,
      details |-> "details of 1", journey_type |-> "Education"],
     [title |-> "t1", company_name |-> "c1", start_date |-> <<1, 0>>, end_date |-> <<1, 1>>,
      details |-> "details of 1", journey_type |-> "Volunteer"]}

\* bodies of PUT /api/journey/:id after updateJourneyValidation
UpdateJourneyBodies ==
    {[title |-> "t1"],
     [title |-> "t2", company_name |-> "c1"],
     [start_date |-> <<2, 0>>],
     [end_date |-> <<2, 0>>, details |-> "details of 2"],
     [end_date |-> <<1, 1>>]}

\* ---------------------------------------------------------------- JS values
\* a query-string value: undefined, or a string that is the decimal numeral of
\* n; the numbers of the controller are [type |-> "number"]
UNDEFINED == [type |-> "undefined", n |-> 0]
Num(n) == [type |-> "number", n |-> n]
Str(n) == [type |-> "string", n |-> n]

\* `const { page = 1 } = req.query`
Default(v, d) == IF v.type = "undefined" THEN Num(d) ELSE v

\* the length of the decimal numeral of n
RECURSIVE Digits(_)
Digits(n) == IF n < 10 THEN 1 ELSE 1 + Digits(n \div 10)

RECURSIVE Pow10(_)
Pow10(d) == IF d = 0 THEN 1 ELSE 10 * Pow10(d - 1)

\* a - b and a * b: both operands are converted to numbers
Minus(a, b) == Num(a.n - b.n)
Times(a, b) == Num(a.n * b.n)

\* a + b: the sum of two numbers, else the concatenation of the two numerals
\* (b is never negative; the sign of a stays in front)
Plus(a, b) ==
    IF a.type = "number" /\ b.type = "number"
    THEN Num(a.n + b.n)
    ELSE IF a.n < 0 THEN Str(-((-a.n) * Pow10(Digits(b.n)) + b.n))
    ELSE Str(a.n * Pow10(Digits(b.n)) + b.n)

\* a < b with at least one number: both operands are converted to numbers
Less(a, b) == a.n < b.n

\* Math.ceil(a / b)
Ceil(a, b) == (a.n + b.n - 1) \div b.n

\* parseInt(v)
parseInt(v) == v.n

\* `x || d` on numbers: 0 is falsy
OrDefault(x, d) == IF x = 0 THEN d ELSE x

\* the values page and limit may have past queryValidation
\* (optional, isInt min 1; optional, isInt min 1 max 100)
PageParams == {UNDEFINED} \cup {Str(p) : p \in 1..MaxPage}
LimitParams == {UNDEFINED} \cup {Str(l) : l \in {1, 2, 10, 100}}

\* a name of 256 characters
LongName == "nnnnnnnnnnnnnnnnnnnnnnnnnnnnnnnnnnnnnnnnnnnnnnnnnnnnnnnnnnnnnnnnnnnnnnnnnnnnnnnnnnnnnnnnnnnnnnnnnnnnnnnnnnnnnnnnnnnnnnnnnnnnnnnnnnnnnnnnnnnnnnnnnnnnnnnnnnnnnnnnnnnnnnnnnnnnnnnnnnnnnnnnnnnnnnnnnnnnnnnnnnnnnnnnnnnnnnnnnnnnnnnnnnnnnnnnnnnnnnnnnnnnnnnnnnnnnnnn"

\* bodies that break the rules of the create validators
InvalidCreateProjectBodies ==
    {[name |-> "a", details |-> "short"],
     [name |-> "", details |-> "details of 1"],
     [name |-> LongName, details |-> "details of 1"],
     [name |-> "b", details |-> "details of 1", skills |-> SkillsString]}
InvalidCreateCertificationBodies ==
    {[title |-> "", issuer |-> "i1", issued_date |-> <<1, 0>>],
     [title |-> "t1", issuer |-> "i1", issued_date |-> <<1, 0>>, details |-> "short"]}
InvalidCreateJourneyBodies ==
    {[title |-> "", company_name |-> "c1", start_date |-> <<1, 0>>,
      details |-> "details of 1", journey_type |-> "Experience"],
     [title |-> "t1", company_name |-> "c1", start_date |-> <<1, 0>>,
      details |-> "short", journey_type |-> "Experience"]}

\* bodies that break the rules of the update validators
InvalidUpdateProjectBodies ==
    {[details |-> "short"],
     [name |-> " ", skills |-> SkillsString],
     [demo_link |-> "not a url", github_link |-> "http://git.io"]}
InvalidUpdateCertificationBodies ==
    {[title |-> " "],
     [title |-> "", link_url |-> "not a url"]}
InvalidUpdateJourneyBodies ==
    {[details |-> "short", journey_type |-> "Hobby"],
     [start_date |-> <<2, 0>>, end_date |-> <<1, 0>>]}

Has(body, f) == f \in DOMAIN body

\* String.prototype.trim on the strings of the model
Trim(s) == IF s = " a" THEN "a" ELSE IF s = " " THEN "" ELSE s

\* new Date(d).toISOString().split('T')[0]: the day, without the time
DateString(d) == <<d[1], 0>>

\* new Date(a) <= new Date(b)
DateLeq(a, b) == a[1] < b[1] \/ (a[1] = b[1] /\ a[2] <= b[2])

\* `x || null` on strings
OrNull(s) == IF s = "" THEN NULL ELSE s

\* ---------------------------------------------------------------- state
VARIABLES
    projects,        \* table projects: a set of rows
    certifications,  \* table certifications
    journey_items,   \* table journey_items
    projectSeq,      \* last id handed out by projects.id (BIGSERIAL)
    certSeq,
    journeySeq,
    blobs,           \* file names stored in the bucket
    blobSeq,         \* number of file names generated so far (uuidv4)
    arrived,         \* number of requests that have arrived
    overlap,         \* whether the requests of this run may overlap
    pc,              \* pc[r]: where request r stands
    req              \* req[r]: the locals of request r

vars == <<projects, certifications, journey_items, projectSeq, certSeq,
          journeySeq, blobs, blobSeq, arrived, overlap, pc, req>>

tables == <<projects, certifications, journey_items, projectSeq, certSeq, journeySeq>>
otherTables == <<certifications, journey_items, certSeq, journeySeq>>
stores == <<projects, certifications, journey_items, projectSeq, certSeq,
            journeySeq, blobs, blobSeq>>

\* ---------------------------------------------------------------- helpers
\* PostgREST .single(): the row when exactly one row matches, else data = null
Single(rows) == IF Cardinality(rows) = 1 THEN rows ELSE {}

\* what a query of the record store returns as `data`: the rows, or null when
\* the store fails (the error comes back beside it, it is not thrown)
Select(ok, rows) == IF ok THEN rows ELSE {}

\* getPublicUrl(fileName)
PublicUrl(fileName) == <<"storage", "project-images", fileName>>

\* url.split('/') and its last element
extractFilenameFromUrl(url) == url[Len(url)]

\* sendSuccess / sendError: the formatted response {statusCode, json: response};
\* `errors` is set on the response only when it is truthy (data is left out)
Formatted(success, statusCode, message, errors) ==
    [statusCode |-> statusCode,
     json |-> IF errors \in {NULL, ""}
              THEN [success |-> success, message |-> message, timestamp |-> "now"]
              ELSE [success |-> success, message |-> message, timestamp |-> "now",
                    errors |-> errors]]

\* a response: res.status(s).json(sendError(message, s, errors)), the value
\* handed to res.json being the body that is sent
Response(status, message, errors) ==
    [status |-> status, message |-> message, errors |-> errors,
     body |-> Formatted(status < 400, status, message, errors)]

\* res.status(s).json(sendSuccess(data, message, s)): `data` is set on the
\* response when it is not null
sendSuccess(data, message, statusCode) ==
    [status |-> statusCode, message |-> message, errors |-> NULL,
     body |-> [statusCode |-> statusCode,
               json |-> [success |-> TRUE, message |-> message, timestamp |-> "now",
                         data |-> data]]]

\* a call made to the record store or the blob store, as the request saw it
Call(name, arg, ok) == [call |-> name, arg |-> arg, ok |-> ok]

\* a query parameter or route parameter that is a string, when it is not given
Absent == "undefined"

IdleReq == [op |-> "none", id |-> 0, body |-> [details |-> NULL], file |-> FALSE,
            cred |-> TRUE, files |-> <<>>, reqfile |-> {},
            query |-> [page |-> UNDEFINED, limit |-> UNDEFINED, sortBy |-> Absent, q |-> Absent],
            param |-> Absent,
            existing |-> {}, image_url |-> NoImage, calls |-> <<>>, resp |-> <<>>]

\* no other request is in flight
Alone(r) == \A q \in Reqs \ {r} : pc[q] \in {"idle", "done"}

\* a request arrives at a free task slot
Arrive(r) ==
    /\ pc[r] \in {"idle", "done"}
    /\ overlap \/ Alone(r)
    /\ arrived < MaxRequests
    /\ arrived' = arrived + 1
    /\ UNCHANGED overlap

\* the request goes on to `next`
Goto(r, next, locals) ==
    /\ pc' = [pc EXCEPT ![r] = next]
    /\ req' = [req EXCEPT ![r] = locals]

\* a response that is sent without returning, and sent again by the catch block
Respond_Twice(r, locals, response) ==
    /\ pc' = [pc EXCEPT ![r] = "done"]
    /\ req' = [req EXCEPT ![r] = [locals EXCEPT !.resp = Append(Append(@, response), response)]]

\* the request sends a response and returns
Respond(r, locals, response) ==
    /\ pc' = [pc EXCEPT ![r] = "done"]
    /\ req' = [req EXCEPT ![r] = [locals EXCEPT !.resp = Append(@, response)]]

Logged(locals, call) == [locals EXCEPT !.calls = Append(@, call)]

\* creates and uploads in flight that still have to draw an id / a file name
PendingInsertsOf(op) == Cardinality({r \in Reqs : req[r].op = op /\ pc[r] # "done"})
PendingInserts == PendingInsertsOf("createProject")
PendingUploads ==
    Cardinality({r \in Reqs : req[r].file /\ pc[r] \in {"c_check", "c_upload", "i_upload",
                                                        "u_lookup", "u_conflict", "u_upload"}})

Empty ==
    /\ projects = {}
    /\ certifications = {}
    /\ journey_items = {}
    /\ projectSeq = 0
    /\ certSeq = 0
    /\ journeySeq = 0
    /\ blobs = {}
    /\ blobSeq = 0
    /\ arrived = 0
    /\ pc = [r \in Reqs |-> "idle"]
    /\ req = [r \in Reqs |-> IdleReq]

\* the server starts on empty stores; requests may overlap
Init == Empty /\ overlap = TRUE

\* the same, in a run whose requests do not overlap
InitSeq == Empty /\ overlap = FALSE

\* ---------------------------------------------------------------- middleware
\* one file of a multipart body: its field name and its declared MIME type
Part(fieldname, mimetype) == [fieldname |-> fieldname, mimetype |-> mimetype]
ImagePart == Part("image", "image/png")

\* the default of ALLOWED_IMAGE_TYPES
allowedTypes == {"image/jpeg", "image/png", "image/gif", "image/webp"}

\* the filter lets every file through
fileFilter_AcceptsAll(file) == TRUE

fileFilter(file) == file.mimetype \in allowedTypes

\* the error multer's any() hands to its callback ("" when there is none): the
\* filter refuses a file, or a second file arrives (limits.files = 1)
MulterError(files) ==
    IF Len(files) = 0 THEN ""
    ELSE IF ~fileFilter(files[1]) THEN "Invalid file type"
    ELSE IF Len(files) > 1 THEN "LIMIT_FILE_COUNT"
    ELSE ""

\* only the field name 'image' is looked for
FoundFile_ImageOnly(files) ==
    {Part("image", files[i].mimetype) :
        i \in {j \in 1..Len(files) :
                  /\ files[j].fieldname = "image"
                  /\ \A k \in 1..(j - 1) : files[k].fieldname # "image"}}

\* req.files.find(f => ['image', 'uploadedFile'].includes(f.fieldname)), its
\* field name set to 'image': req.file, as a set
FoundFile(files) ==
    {Part("image", files[i].mimetype) :
        i \in {j \in 1..Len(files) :
                  /\ files[j].fieldname \in {"image", "uploadedFile"}
                  /\ \A k \in 1..(j - 1) : files[k].fieldname \notin {"image", "uploadedFile"}}}

\* the upload middleware of the projects routes
uploadProjectImageMiddleware(ctx) ==
    IF MulterError(ctx.files) # ""
    THEN [ctx EXCEPT !.error = MulterError(ctx.files)]
    ELSE [ctx EXCEPT !.file = FoundFile(ctx.files)]

\* res.status(400).json({ success: false, error })
UploadErrorResponse(error) ==
    [status |-> 400, message |-> error, errors |-> NULL,
     body |-> [success |-> FALSE, error |-> error]]

\* handleUploadError(error, req, res, next)
handleUploadError(ctx) ==
    CASE ctx.error = "LIMIT_FILE_SIZE" ->
           [ctx EXCEPT !.resp = <<UploadErrorResponse("File too large. Maximum size allowed is 10MB.")>>]
      [] ctx.error = "LIMIT_FILE_COUNT" ->
           [ctx EXCEPT !.resp = <<UploadErrorResponse("Too many files. Only one file allowed.")>>]
      [] ctx.error = "Invalid file type" ->
           [ctx EXCEPT !.resp = <<UploadErrorResponse("Invalid file type. Only JPEG, PNG, GIF, and WebP images are allowed.")>>]
      [] OTHER -> ctx

\* the auth gate: a request without a valid bearer credential is answered 401,
\* with the response envelope (success, message, timestamp) as its body
authenticate(ctx) ==
    IF ctx.cred THEN ctx
    ELSE [ctx EXCEPT !.resp =
              <<[status |-> 401, message |-> "Authentication required", errors |-> NULL,
                 body |-> [success |-> FALSE, message |-> "Authentication required",
                           timestamp |-> "now"]]>>]

\* isURL() on the strings of the model
ValidUrls == {"http://demo.io", "http://git.io", "http://cert.io"}
\* isISO8601() on the dates of the model
IsISO8601(d) == Len(d) = 2 /\ d[1] >= 1

\* a string field after .trim(), and the body with its string fields trimmed
Trimmed(body, fields) ==
    [f \in DOMAIN body |-> IF f \in fields THEN Trim(body[f]) ELSE body[f]]

\* param('id').isInt({ min: 1 })
idValidation(ctx) ==
    IF ctx.id >= 1 THEN ctx ELSE [ctx EXCEPT !.violated = @ \cup {"id"}]

\* the fields of `body` that break the rules of createProjectValidation
createProjectValidation(body) ==
    {f \in {"name", "details", "skills", "demo_link", "github_link"} :
        CASE f = "name" -> ~Has(body, f) \/ Trim(body.name) = "" \/ Len(Trim(body.name)) > 255
          [] f = "details" -> ~Has(body, f) \/ Trim(body.details) = ""
                                \/ Len(Trim(body.details)) < 10
          [] f = "skills" -> Has(body, f) /\ ~body.skills.isArray
          [] OTHER -> Has(body, f) /\ body[f] \notin ValidUrls}

\* updateProjectValidation: every field optional
updateProjectValidation(ctx) ==
    LET body == ctx.body
        bad == {f \in DOMAIN body \cap {"name", "details", "skills", "demo_link", "github_link"} :
                   CASE f = "name" -> Trim(body.name) = "" \/ Len(Trim(body.name)) > 255
                     [] f = "details" -> Trim(body.details) = "" \/ Len(Trim(body.details)) < 10
                     [] f = "skills" -> ~body.skills.isArray
                     [] OTHER -> body[f] \notin ValidUrls}
    IN [ctx EXCEPT !.violated = @ \cup bad, !.body = Trimmed(body, {"name", "details"})]

updateCertificationValidation(ctx) ==
    LET body == ctx.body
        bad == {f \in DOMAIN body \cap {"title", "issuer", "issued_date", "certification_id",
                                         "details", "link_url"} :
                   CASE f \in {"title", "issuer"} -> Trim(body[f]) = "" \/ Len(Trim(body[f])) > 255
                     [] f = "issued_date" -> ~IsISO8601(body.issued_date)
                     [] f = "certification_id" -> Len(Trim(body.certification_id)) > 255
                     [] f = "details" -> Len(Trim(body.details)) > 2000
                     [] OTHER -> body[f] \notin ValidUrls}
    IN [ctx EXCEPT !.violated = @ \cup bad,
                   !.body = Trimmed(body, {"title", "issuer", "certification_id", "details"})]

updateJourneyValidation(ctx) ==
    LET body == ctx.body
        bad == {f \in DOMAIN body \cap {"title", "company_name", "start_date", "end_date",
                                         "details", "journey_type"} :
                   CASE f \in {"title", "company_name"} ->
                          Trim(body[f]) = "" \/ Len(Trim(body[f])) > 255
                     [] f = "start_date" -> ~IsISO8601(body.start_date)
                     [] f = "end_date" ->
                          \/ ~IsISO8601(body.end_date)
                          \/ Has(body, "start_date") /\ body.start_date # NoDate
                                /\ DateLeq(body.end_date, body.start_date)
                     [] f = "details" -> Trim(body.details) = "" \/ Len(Trim(body.details)) < 10
                     [] OTHER -> body[f] \notin {"Experience", "Education", "Volunteer"}}
    IN [ctx EXCEPT !.violated = @ \cup bad,
                   !.body = Trimmed(body, {"title", "company_name", "details"})]

\* validationResult(req): the Result object of express-validator, which holds
\* the errors of the validators that ran (it has no `details`)
validationResult(ctx) == [errors |-> ctx.violated]

\* sendValidationError(validationErrors): an entry per element of `details`;
\* the errors object, empty or not, is truthy and is set on the response
sendValidationError(validationErrors) ==
    LET errors == IF Has(validationErrors, "details")
                  THEN [f \in validationErrors.details |-> "Invalid value"]
                  ELSE [f \in {} |-> "Invalid value"]
    IN [status |-> 400, message |-> "Validation failed", errors |-> errors,
        body |-> [statusCode |-> 400,
                  json |-> [success |-> FALSE, message |-> "Validation failed",
                            timestamp |-> "now", errors |-> errors]]]

validateRequest(ctx) ==
    IF ctx.violated # {}
    THEN [ctx EXCEPT !.resp = <<sendValidationError(validationResult(ctx))>>]
    ELSE ctx

\* the middleware of each mutating route, in the order the router lists them
Route(op) ==
    CASE op = "createProject" -> <<"uploadProjectImageMiddleware", "handleUploadError">>
      [] op = "uploadProjectImage" ->
           <<"authenticate", "uploadProjectImageMiddleware", "handleUploadError">>
      [] op = "updateProject" ->
           <<"authenticate", "idValidation", "uploadProjectImageMiddleware",
             "handleUploadError", "updateProjectValidation", "validateRequest">>
      [] op = "deleteProject" -> <<"idValidation", "validateRequest">>
      [] op = "getProjectById" -> <<"authenticate", "idValidation", "validateRequest">>
      [] op = "createCertification" -> <<"validateRequest">>
      [] op = "updateCertification" ->
           <<"authenticate", "idValidation", "updateCertificationValidation", "validateRequest">>
      [] op = "deleteCertification" -> <<"authenticate", "idValidation", "validateRequest">>
      [] op = "createJourneyItem" -> <<>>
      [] op = "updateJourneyItem" ->
           <<"authenticate", "idValidation", "updateJourneyValidation", "validateRequest">>
      [] op = "deleteJourneyItem" -> <<"authenticate", "idValidation", "validateRequest">>

\* where the controller of the route starts
Controller(op) ==
    CASE op = "createProject" -> "c_check"
      [] op = "uploadProjectImage" -> "i_upload"
      [] op = "updateProject" -> "u_lookup"
      [] op = "deleteProject" -> "d_lookup"
      [] op = "getProjectById" -> "g_query"
      [] op = "createCertification" -> "cc_check"
      [] op = "updateCertification" -> "cu_lookup"
      [] op = "deleteCertification" -> "cd_lookup"
      [] op = "createJourneyItem" -> "jc_check"
      [] op = "updateJourneyItem" -> "ju_lookup"
      [] op = "deleteJourneyItem" -> "jd_lookup"

\* one middleware applied to the request: once an error was passed to next()
\* only the error-handling middleware runs
Apply(m, ctx) ==
    IF m = "handleUploadError"
    THEN (IF ctx.error # "" THEN handleUploadError(ctx) ELSE ctx)
    ELSE IF ctx.error # "" THEN ctx
    ELSE CASE m = "authenticate" -> authenticate(ctx)
           [] m = "idValidation" -> idValidation(ctx)
           [] m = "uploadProjectImageMiddleware" -> uploadProjectImageMiddleware(ctx)
           [] m = "updateProjectValidation" -> updateProjectValidation(ctx)
           [] m = "updateCertificationValidation" -> updateCertificationValidation(ctx)
           [] m = "updateJourneyValidation" -> updateJourneyValidation(ctx)
           [] m = "validateRequest" -> validateRequest(ctx)

\* the request passed down the chain until a middleware answers it
RECURSIVE Through(_, _, _)
Through(chain, i, ctx) ==
    IF i > Len(chain) \/ ctx.resp # <<>> THEN ctx
    ELSE Through(chain, i + 1, Apply(chain[i], ctx))

\* where the request stands once its route has run its middleware: answered
\* by a middleware (done), or at the start of its controller
Admitted(op, id, cred, files, body) ==
    LET ctx == Through(Route(op), 1,
                       [id |-> id, cred |-> cred, files |-> files, body |-> body,
                        file |-> {}, error |-> "", violated |-> {}, resp |-> <<>>])
        l == [IdleReq EXCEPT !.op = op, !.id = id, !.cred = cred, !.files = files,
                             !.body = ctx.body, !.reqfile = ctx.file, !.file = ctx.file # {}]
    IN IF ctx.resp # <<>>
       THEN [pc |-> "done", locals |-> [l EXCEPT !.resp = ctx.resp]]
       ELSE [pc |-> Controller(op), locals |-> l]

\* the request enters its route
Enter(r, op, id, cred, files, body) ==
    Goto(r, Admitted(op, id, cred, files, body).pc, Admitted(op, id, cred, files, body).locals)

\* ---------------------------------------------------------------- createProject
\* POST /api/projects arrives (no validator is wired on this route)
StartCreateProject(r) ==
    /\ Arrive(r)
    /\ projectSeq + PendingInserts < MaxId
    /\ \E body \in CreateProjectBodies, file \in BOOLEAN :
        /\ file => blobSeq + PendingUploads < MaxBlobs
        /\ Enter(r, "createProject", 0, TRUE, IF file THEN <<ImagePart>> ELSE <<>>, body)
    /\ UNCHANGED stores

\* the duplicate check compares another column
FindProjectByName_WrongColumn(name) == Single({p \in projects : p.details = name})

\* .from('projects').select('id').eq('name', name).single()
FindProjectByName(name) == Single({p \in projects : p.name = name})

CreateProject_Check(r) ==
    /\ pc[r] = "c_check"
    /\ \E ok \in BOOLEAN : LET existingProject == Select(ok, FindProjectByName(req[r].body.name))
           l == Logged(req[r], Call("select", 0, ok))
       IN IF existingProject # {}
          THEN Respond(r, l, Response(400, "Project with this name already exists", NULL))
          ELSE Goto(r, IF l.file THEN "c_upload" ELSE "c_insert", l)
    /\ UNCHANGED <<stores, arrived, overlap>>

\* catch (uploadError) of createProject
CreateProject_UploadFailed(r, l) ==
    Respond(r, l, Response(400, "Failed to upload image. Please ensure the file is a valid image and under 10MB.", NULL))

\* uploadToSupabaseStorage: the stored file name, or a thrown error
CreateProject_Upload(r) ==
    /\ pc[r] = "c_upload"
    /\ \E ok \in BOOLEAN :
        LET fileName == blobSeq + 1
            l == Logged(req[r], Call("upload", fileName, ok))
        IN /\ blobSeq' = blobSeq + 1
           /\ IF ok
              THEN /\ blobs' = blobs \cup {fileName}
                   /\ Goto(r, "c_insert", [l EXCEPT !.image_url = PublicUrl(fileName)])
              ELSE /\ blobs' = blobs
                   /\ CreateProject_UploadFailed(r, l)
    /\ UNCHANGED <<tables, arrived, overlap>>

\* skills that is not an array is stored as null
projectData_NullSkills(body, image_url) ==
    [name |-> body.name,
     details |-> body.details,
     skills |-> IF ~Has(body, "skills") THEN <<>>
                ELSE IF body.skills.isArray THEN body.skills.items ELSE NULL,
     demo_link |-> IF Has(body, "demo_link") THEN OrNull(body.demo_link) ELSE NULL,
     github_link |-> IF Has(body, "github_link") THEN OrNull(body.github_link) ELSE NULL,
     image_url |-> image_url]

\* the record createProject inserts
projectData(body, image_url) ==
    [name |-> body.name,
     details |-> body.details,
     skills |-> IF Has(body, "skills") /\ body.skills.isArray THEN body.skills.items ELSE <<>>,
     demo_link |-> IF Has(body, "demo_link") THEN OrNull(body.demo_link) ELSE NULL,
     github_link |-> IF Has(body, "github_link") THEN OrNull(body.github_link) ELSE NULL,
     image_url |-> image_url]

Row(id, data) == [id |-> id] @@ data

\* the table would carry UNIQUE (name)
InsertAccepted_UniqueName(ok, name) == ok /\ \A p \in projects : p.name # name

\* CREATE TABLE projects: no UNIQUE constraint on name, so an insert is refused
\* only when the store fails
InsertAccepted(ok, name) == ok

\* the uploaded image is left behind
CreateProject_InsertFailed_NoCleanup(r, l) ==
    Respond(r, l, Response(500, "Failed to create project", NULL))

\* what createProject does once the insert returned an error
CreateProject_InsertFailed(r, l) ==
    IF l.image_url # NoImage
    THEN Goto(r, "c_cleanup", l)
    ELSE Respond(r, l, Response(500, "Failed to create project", NULL))

\* .from('projects').insert([projectData]).select().single()
CreateProject_Insert(r) ==
    /\ pc[r] = "c_insert"
    /\ \E ok \in BOOLEAN :
        LET accepted == InsertAccepted(ok, req[r].body.name)
            l == Logged(req[r], Call("insert", 0, accepted))
        IN IF accepted
           THEN /\ projectSeq' = projectSeq + 1
                /\ projects' = projects \cup {Row(projectSeq + 1, projectData(l.body, l.image_url))}
                /\ Respond(r, l, sendSuccess(Row(projectSeq + 1, projectData(l.body, l.image_url)),
                                              "Project created successfully", 201))
           ELSE /\ UNCHANGED <<projects, projectSeq>>
                /\ CreateProject_InsertFailed(r, l)
    /\ UNCHANGED <<otherTables, blobs, blobSeq, arrived, overlap>>

\* the error of the delete escapes to the outer catch
CreateProject_Cleanup_Rethrow(r) ==
    /\ pc[r] = "c_cleanup"
    /\ \E ok \in BOOLEAN :
        LET fileName == extractFilenameFromUrl(req[r].image_url)
            l == Logged(req[r], Call("remove", fileName, ok))
        IN /\ blobs' = IF ok THEN blobs \ {fileName} ELSE blobs
           /\ Respond(r, l, Response(500, "Failed to create project",
                                     IF ok THEN NULL ELSE "Delete failed"))
    /\ UNCHANGED <<tables, blobSeq, arrived, overlap>>

\* deleteFromSupabaseStorage(fileName) inside try/catch: its error is logged only
CreateProject_Cleanup(r) ==
    /\ pc[r] = "c_cleanup"
    /\ \E ok \in BOOLEAN :
        LET fileName == extractFilenameFromUrl(req[r].image_url)
            l == Logged(req[r], Call("remove", fileName, ok))
        IN /\ blobs' = IF ok THEN blobs \ {fileName} ELSE blobs
           /\ Respond(r, l, Response(500, "Failed to create project", NULL))
    /\ UNCHANGED <<tables, blobSeq, arrived, overlap>>

\* ---------------------------------------------------------------- updateProject
\* PUT /api/projects/:id arrives, past authenticate, idValidation, the upload
\* middleware and updateProjectValidation
StartUpdateProject(r) ==
    /\ Arrive(r)
    /\ \E id \in 1..MaxId, body \in UpdateProjectBodies, file \in BOOLEAN :
        /\ file => blobSeq + PendingUploads < MaxBlobs
        /\ Enter(r, "updateProject", id, TRUE, IF file THEN <<ImagePart>> ELSE <<>>, body)
    /\ UNCHANGED stores

\* .from('projects').select('*').eq('id', id).single()
FindProjectById(id) == Single({p \in projects : p.id = id})

\* `name && name !== existingProject.name`
NameIsChanged(body, existingProject) ==
    /\ Has(body, "name")
    /\ body.name # ""
    /\ \E p \in existingProject : body.name # p.name

\* `let image_url = existingProject.image_url` and what follows it
UpdateProject_AfterConflictCheck(r, l) ==
    LET image_url == (CHOOSE p \in l.existing : TRUE).image_url
    IN Goto(r, IF l.file THEN "u_upload" ELSE "u_update", [l EXCEPT !.image_url = image_url])

UpdateProject_Lookup(r) ==
    /\ pc[r] = "u_lookup"
    /\ \E ok \in BOOLEAN : LET existingProject == Select(ok, FindProjectById(req[r].id))
           l == [Logged(req[r], Call("select", 0, ok)) EXCEPT !.existing = existingProject]
       IN IF existingProject = {}
          THEN Respond(r, l, Response(404, "Project not found", NULL))
          ELSE IF NameIsChanged(l.body, existingProject)
               THEN Goto(r, "u_conflict", l)
               ELSE UpdateProject_AfterConflictCheck(r, l)
    /\ UNCHANGED <<stores, arrived, overlap>>

\* .from('projects').select('id').eq('name', name).neq('id', id).single()
FindOtherProjectByName(name, id) == Single({p \in projects : p.name = name /\ p.id # id})

UpdateProject_NameConflict(r) ==
    /\ pc[r] = "u_conflict"
    /\ \E ok \in BOOLEAN : LET nameConflict == Select(ok, FindOtherProjectByName(req[r].body.name, req[r].id))
           l == Logged(req[r], Call("select", 0, ok))
       IN IF nameConflict # {}
          THEN Respond(r, l, Response(400, "Project with this name already exists", NULL))
          ELSE UpdateProject_AfterConflictCheck(r, l)
    /\ UNCHANGED <<stores, arrived, overlap>>

\* what updateProject does once the new image is stored
UpdateProject_AfterUpload(r, l) ==
    LET existingProject == CHOOSE p \in l.existing : TRUE
    IN Goto(r, IF existingProject.image_url # NoImage THEN "u_delold" ELSE "u_update", l)

\* the failed upload is ignored and the record is written
UpdateProject_UploadFailed_GoesOn(r, l) == Goto(r, "u_update", l)

\* catch (uploadError) of updateProject
UpdateProject_UploadFailed(r, l) ==
    Respond(r, l, Response(400, "Failed to upload image. Please ensure the file is a valid image and under 10MB.", NULL))

UpdateProject_Upload(r) ==
    /\ pc[r] = "u_upload"
    /\ \E ok \in BOOLEAN :
        LET fileName == blobSeq + 1
            l == Logged(req[r], Call("upload", fileName, ok))
        IN /\ blobSeq' = blobSeq + 1
           /\ IF ok
              THEN /\ blobs' = blobs \cup {fileName}
                   /\ UpdateProject_AfterUpload(r, [l EXCEPT !.image_url = PublicUrl(fileName)])
              ELSE /\ blobs' = blobs
                   /\ UpdateProject_UploadFailed(r, l)
    /\ UNCHANGED <<tables, arrived, overlap>>

\* "Delete old image if it exists": deleteFromSupabaseStorage(oldFileName) in try/catch
UpdateProject_DeleteOld(r) ==
    /\ pc[r] = "u_delold"
    /\ \E ok \in BOOLEAN :
        LET oldFileName == extractFilenameFromUrl((CHOOSE p \in req[r].existing : TRUE).image_url)
            l == Logged(req[r], Call("remove", oldFileName, ok))
        IN /\ blobs' = IF ok THEN blobs \ {oldFileName} ELSE blobs
           /\ Goto(r, "u_update", l)
    /\ UNCHANGED <<tables, blobSeq, arrived, overlap>>

\* the fields of updateData
updateFields(body) ==
    {f \in {"name", "details", "skills", "demo_link", "github_link"} : Has(body, f)}
    \cup {"image_url"}

\* the partial record updateProject writes
updateData(body, image_url) ==
    [f \in updateFields(body) |->
        CASE f = "name" -> Trim(body.name)
          [] f = "details" -> Trim(body.details)
          [] f = "skills" -> IF body.skills.isArray THEN body.skills.items ELSE <<>>
          [] f = "demo_link" -> OrNull(Trim(body.demo_link))
          [] f = "github_link" -> OrNull(Trim(body.github_link))
          [] f = "image_url" -> image_url]

\* UPDATE ... SET data: the columns of data replace the row's
Updated(row, data) == [f \in DOMAIN row |-> IF f \in DOMAIN data THEN data[f] ELSE row[f]]

\* what updateProject does once the update returned an error
UpdateProject_UpdateFailed(r, l) ==
    IF l.file /\ l.image_url # NoImage
    THEN Goto(r, "u_cleanup", l)
    ELSE Respond(r, l, Response(500, "Failed to update project", NULL))

\* .from('projects').update(updateData).eq('id', id).select().single():
\* an error when the store fails or when no row has the id any more
UpdateProject_Update(r) ==
    /\ pc[r] = "u_update"
    /\ \E ok \in BOOLEAN :
        LET target == {p \in projects : p.id = req[r].id}
            done == ok /\ target # {}
            l == Logged(req[r], Call("update", 0, done))
        IN IF done
           THEN /\ projects' = (projects \ target)
                        \cup {Updated(p, updateData(l.body, l.image_url)) : p \in target}
                /\ Respond(r, l, Response(200, "Project updated successfully", NULL))
           ELSE /\ projects' = projects
                /\ UpdateProject_UpdateFailed(r, l)
    /\ UNCHANGED <<projectSeq, otherTables, blobs, blobSeq, arrived, overlap>>

\* "If database update fails, delete newly uploaded image", in try/catch
UpdateProject_Cleanup(r) ==
    /\ pc[r] = "u_cleanup"
    /\ \E ok \in BOOLEAN :
        LET fileName == extractFilenameFromUrl(req[r].image_url)
            l == Logged(req[r], Call("remove", fileName, ok))
        IN /\ blobs' = IF ok THEN blobs \ {fileName} ELSE blobs
           /\ Respond(r, l, Response(500, "Failed to update project", NULL))
    /\ UNCHANGED <<tables, blobSeq, arrived, overlap>>

\* ---------------------------------------------------------------- deleteProject
\* DELETE /api/projects/:id arrives, past idValidation
StartDeleteProject(r) ==
    /\ Arrive(r)
    /\ \E id \in 1..MaxId :
        Enter(r, "deleteProject", id, TRUE, <<>>, IdleReq.body)
    /\ UNCHANGED stores

DeleteProject_Lookup(r) ==
    /\ pc[r] = "d_lookup"
    /\ \E ok \in BOOLEAN : LET existingProject == Select(ok, FindProjectById(req[r].id))
           l == [Logged(req[r], Call("select", 0, ok)) EXCEPT !.existing = existingProject]
       IN IF existingProject = {}
          THEN Respond(r, l, Response(404, "Project not found", NULL))
          ELSE Goto(r, IF (CHOOSE p \in existingProject : TRUE).image_url = NoImage
                       THEN "d_delete" ELSE "d_image", l)
    /\ UNCHANGED <<stores, arrived, overlap>>

\* the error of the delete escapes to the catch of deleteProject
deleteProjectImage_Rethrow(r) ==
    /\ pc[r] = "d_image"
    /\ \E ok \in BOOLEAN :
        LET fileName == extractFilenameFromUrl((CHOOSE p \in req[r].existing : TRUE).image_url)
            l == Logged(req[r], Call("remove", fileName, ok))
        IN /\ blobs' = IF ok THEN blobs \ {fileName} ELSE blobs
           /\ IF ok THEN Goto(r, "d_delete", l)
              ELSE Respond(r, l, Response(500, "Failed to delete project", "Delete failed"))
    /\ UNCHANGED <<tables, blobSeq, arrived, overlap>>

\* deleteProjectImage(imageUrl): the error of the delete is caught and logged
deleteProjectImage(r) ==
    /\ pc[r] = "d_image"
    /\ \E ok \in BOOLEAN :
        LET fileName == extractFilenameFromUrl((CHOOSE p \in req[r].existing : TRUE).image_url)
            l == Logged(req[r], Call("remove", fileName, ok))
        IN /\ blobs' = IF ok THEN blobs \ {fileName} ELSE blobs
           /\ Goto(r, "d_delete", l)
    /\ UNCHANGED <<tables, blobSeq, arrived, overlap>>

\* .from('projects').delete().eq('id', id)
DeleteProject_Delete(r) ==
    /\ pc[r] = "d_delete"
    /\ \E ok \in BOOLEAN :
        LET l == Logged(req[r], Call("delete", 0, ok))
        IN IF ok
           THEN /\ projects' = {p \in projects : p.id # req[r].id}
                /\ Respond(r, l, Response(200, "Project deleted successfully", NULL))
           ELSE /\ projects' = projects
                /\ Respond(r, l, Response(500, "Failed to delete project", NULL))
    /\ UNCHANGED <<projectSeq, otherTables, blobs, blobSeq, arrived, overlap>>

\* ---------------------------------------------------------------- certifications
\* POST /api/certifications arrives
StartCreateCertification(r) ==
    /\ Arrive(r)
    /\ certSeq + PendingInsertsOf("createCertification") < MaxId
    /\ \E body \in CreateCertificationBodies :
        Enter(r, "createCertification", 0, TRUE, <<>>, body)
    /\ UNCHANGED stores

\* .from('certifications').select('id').eq('title', title).eq('issuer', issuer).single()
FindCertification(title, issuer) ==
    Single({c \in certifications : c.title = title /\ c.issuer = issuer})

CreateCertification_Check(r) ==
    /\ pc[r] = "cc_check"
    /\ \E ok \in BOOLEAN : LET existingCertification == Select(ok, FindCertification(req[r].body.title, req[r].body.issuer))
           l == Logged(req[r], Call("select", 0, ok))
       IN IF existingCertification # {}
          THEN Respond(r, l, Response(400, "Certification with this title and issuer already exists", NULL))
          ELSE Goto(r, "cc_insert", l)
    /\ UNCHANGED <<stores, arrived, overlap>>

\* the record createCertification inserts
certificationData(body) ==
    [title |-> body.title,
     issuer |-> body.issuer,
     issued_date |-> body.issued_date,
     certification_id |-> IF Has(body, "certification_id") THEN OrNull(body.certification_id) ELSE NULL,
     details |-> IF Has(body, "details") THEN OrNull(body.details) ELSE NULL,
     link_url |-> IF Has(body, "link_url") THEN OrNull(body.link_url) ELSE NULL]

CreateCertification_Insert(r) ==
    /\ pc[r] = "cc_insert"
    /\ \E ok \in BOOLEAN :
        LET l == Logged(req[r], Call("insert", 0, ok))
        IN IF ok
           THEN /\ certSeq' = certSeq + 1
                /\ certifications' = certifications \cup {Row(certSeq + 1, certificationData(l.body))}
                /\ Respond(r, l, Response(201, "Certification created successfully", NULL))
           ELSE /\ UNCHANGED <<certifications, certSeq>>
                /\ Respond(r, l, Response(500, "Failed to create certification", NULL))
    /\ UNCHANGED <<projects, projectSeq, journey_items, journeySeq, blobs, blobSeq, arrived, overlap>>

\* PUT /api/certifications/:id arrives
StartUpdateCertification(r) ==
    /\ Arrive(r)
    /\ \E id \in 1..MaxId, body \in UpdateCertificationBodies :
        Enter(r, "updateCertification", id, TRUE, <<>>, body)
    /\ UNCHANGED stores

\* .from('certifications').select('*').eq('id', id).single()
FindCertificationById(id) == Single({c \in certifications : c.id = id})

\* `title && issuer && (title !== existing.title || issuer !== existing.issuer)`
CertificationKeyIsChanged(body, existingCertification) ==
    /\ Has(body, "title") /\ body.title # ""
    /\ Has(body, "issuer") /\ body.issuer # ""
    /\ \E c \in existingCertification : body.title # c.title \/ body.issuer # c.issuer

UpdateCertification_Lookup(r) ==
    /\ pc[r] = "cu_lookup"
    /\ \E ok \in BOOLEAN : LET existingCertification == Select(ok, FindCertificationById(req[r].id))
           l == [Logged(req[r], Call("select", 0, ok)) EXCEPT !.existing = existingCertification]
       IN IF existingCertification = {}
          THEN Respond(r, l, Response(404, "Certification not found", NULL))
          ELSE Goto(r, IF CertificationKeyIsChanged(l.body, existingCertification)
                       THEN "cu_conflict" ELSE "cu_update", l)
    /\ UNCHANGED <<stores, arrived, overlap>>

\* .select('id').eq('title', title).eq('issuer', issuer).neq('id', id).single()
FindOtherCertification(title, issuer, id) ==
    Single({c \in certifications : c.title = title /\ c.issuer = issuer /\ c.id # id})

UpdateCertification_Conflict(r) ==
    /\ pc[r] = "cu_conflict"
    /\ \E ok \in BOOLEAN : LET duplicateCertification ==
               Select(ok, FindOtherCertification(req[r].body.title, req[r].body.issuer, req[r].id))
           l == Logged(req[r], Call("select", 0, ok))
       IN IF duplicateCertification # {}
          THEN Respond(r, l, Response(400, "Certification with this title and issuer already exists", NULL))
          ELSE Goto(r, "cu_update", l)
    /\ UNCHANGED <<stores, arrived, overlap>>

\* the partial record updateCertification writes
certificationUpdateData(body) ==
    [f \in {g \in {"title", "issuer", "issued_date", "certification_id", "details", "link_url"} :
                Has(body, g)} |->
        CASE f = "title" -> Trim(body.title)
          [] f = "issuer" -> Trim(body.issuer)
          [] f = "issued_date" -> DateString(body.issued_date)
          [] f = "certification_id" -> OrNull(Trim(body.certification_id))
          [] f = "details" -> OrNull(Trim(body.details))
          [] f = "link_url" -> OrNull(Trim(body.link_url))]

UpdateCertification_Update(r) ==
    /\ pc[r] = "cu_update"
    /\ \E ok \in BOOLEAN :
        LET target == {c \in certifications : c.id = req[r].id}
            done == ok /\ target # {}
            l == Logged(req[r], Call("update", 0, done))
        IN IF done
           THEN /\ certifications' = (certifications \ target)
                        \cup {Updated(c, certificationUpdateData(l.body)) : c \in target}
                /\ Respond(r, l, Response(200, "Certification updated successfully", NULL))
           ELSE /\ certifications' = certifications
                /\ Respond(r, l, Response(500, "Failed to update certification", NULL))
    /\ UNCHANGED <<projects, projectSeq, certSeq, journey_items, journeySeq, blobs, blobSeq,
                   arrived, overlap>>

\* DELETE /api/certifications/:id arrives
StartDeleteCertification(r) ==
    /\ Arrive(r)
    /\ \E id \in 1..MaxId :
        Enter(r, "deleteCertification", id, TRUE, <<>>, IdleReq.body)
    /\ UNCHANGED stores

DeleteCertification_Lookup(r) ==
    /\ pc[r] = "cd_lookup"
    /\ \E ok \in BOOLEAN : LET existingCertification == Select(ok, FindCertificationById(req[r].id))
           l == [Logged(req[r], Call("select", 0, ok)) EXCEPT !.existing = existingCertification]
       IN IF existingCertification = {}
          THEN Respond(r, l, Response(404, "Certification not found", NULL))
          ELSE Goto(r, "cd_delete", l)
    /\ UNCHANGED <<stores, arrived, overlap>>

DeleteCertification_Delete(r) ==
    /\ pc[r] = "cd_delete"
    /\ \E ok \in BOOLEAN :
        LET l == Logged(req[r], Call("delete", 0, ok))
        IN IF ok
           THEN /\ certifications' = {c \in certifications : c.id # req[r].id}
                /\ Respond(r, l, Response(200, "Certification deleted successfully", NULL))
           ELSE /\ certifications' = certifications
                /\ Respond(r, l, Response(500, "Failed to delete certification", NULL))
    /\ UNCHANGED <<projects, projectSeq, certSeq, journey_items, journeySeq, blobs, blobSeq,
                   arrived, overlap>>

\* ---------------------------------------------------------------- journey items
\* POST /api/journey arrives
StartCreateJourneyItem(r) ==
    /\ Arrive(r)
    /\ journeySeq + PendingInsertsOf("createJourneyItem") < MaxId
    /\ \E body \in CreateJourneyBodies :
        Enter(r, "createJourneyItem", 0, TRUE, <<>>, body)
    /\ UNCHANGED stores

\* .from('journey_items').select('id').eq('title', title).eq('company_name', company_name).single()
FindJourneyItem(title, company_name) ==
    Single({j \in journey_items : j.title = title /\ j.company_name = company_name})

\* `end && new Date(end) <= new Date(start)`
DateRangeInvalid(start, end) == end # NoDate /\ DateLeq(end, start)

CreateJourneyItem_Check(r) ==
    /\ pc[r] = "jc_check"
    /\ \E ok \in BOOLEAN : LET body == req[r].body
           existingJourneyItem == Select(ok, FindJourneyItem(body.title, body.company_name))
           end_date == IF Has(body, "end_date") THEN body.end_date ELSE NoDate
           l == Logged(req[r], Call("select", 0, ok))
       IN IF existingJourneyItem # {}
          THEN Respond(r, l, Response(400, "Journey item with this title and company already exists", NULL))
          ELSE IF DateRangeInvalid(body.start_date, end_date)
               THEN Respond(r, l, Response(400, "End date must be after start date", NULL))
               ELSE Goto(r, "jc_insert", l)
    /\ UNCHANGED <<stores, arrived, overlap>>

\* the record createJourneyItem inserts
journeyItemData(body) ==
    [title |-> Trim(body.title),
     company_name |-> Trim(body.company_name),
     start_date |-> DateString(body.start_date),
     end_date |-> IF Has(body, "end_date") /\ body.end_date # NoDate
                  THEN DateString(body.end_date) ELSE NoDate,
     details |-> Trim(body.details),
     journey_type |-> body.journey_type]

CreateJourneyItem_Insert(r) ==
    /\ pc[r] = "jc_insert"
    /\ \E ok \in BOOLEAN :
        LET l == Logged(req[r], Call("insert", 0, ok))
        IN IF ok
           THEN /\ journeySeq' = journeySeq + 1
                /\ journey_items' = journey_items \cup {Row(journeySeq + 1, journeyItemData(l.body))}
                /\ Respond(r, l, Response(201, "Journey item created successfully", NULL))
           ELSE /\ UNCHANGED <<journey_items, journeySeq>>
                /\ Respond(r, l, Response(500, "Failed to create journey item", NULL))
    /\ UNCHANGED <<projects, projectSeq, certifications, certSeq, blobs, blobSeq, arrived, overlap>>

\* PUT /api/journey/:id arrives
StartUpdateJourneyItem(r) ==
    /\ Arrive(r)
    /\ \E id \in 1..MaxId, body \in UpdateJourneyBodies :
        Enter(r, "updateJourneyItem", id, TRUE, <<>>, body)
    /\ UNCHANGED stores

\* .from('journey_items').select('*').eq('id', id).single()
FindJourneyItemById(id) == Single({j \in journey_items : j.id = id})

\* `title && company_name && (title !== existing.title || company_name !== existing.company_name)`
JourneyKeyIsChanged(body, existingJourneyItem) ==
    /\ Has(body, "title") /\ body.title # ""
    /\ Has(body, "company_name") /\ body.company_name # ""
    /\ \E j \in existingJourneyItem : body.title # j.title \/ body.company_name # j.company_name

\* "Validate date range if both dates are provided" and what follows it
UpdateJourneyItem_ValidateDates(r, l) ==
    LET existingJourneyItem == CHOOSE j \in l.existing : TRUE
        finalStartDate == IF Has(l.body, "start_date") THEN l.body.start_date
                          ELSE existingJourneyItem.start_date
        finalEndDate == IF Has(l.body, "end_date") THEN l.body.end_date
                        ELSE existingJourneyItem.end_date
    IN IF DateRangeInvalid(finalStartDate, finalEndDate)
       THEN Respond(r, l, Response(400, "End date must be after start date", NULL))
       ELSE Goto(r, "ju_update", l)

UpdateJourneyItem_Lookup(r) ==
    /\ pc[r] = "ju_lookup"
    /\ \E ok \in BOOLEAN : LET existingJourneyItem == Select(ok, FindJourneyItemById(req[r].id))
           l == [Logged(req[r], Call("select", 0, ok)) EXCEPT !.existing = existingJourneyItem]
       IN IF existingJourneyItem = {}
          THEN Respond(r, l, Response(404, "Journey item not found", NULL))
          ELSE IF JourneyKeyIsChanged(l.body, existingJourneyItem)
               THEN Goto(r, "ju_conflict", l)
               ELSE UpdateJourneyItem_ValidateDates(r, l)
    /\ UNCHANGED <<stores, arrived, overlap>>

\* .select('id').eq('title', title).eq('company_name', company_name).neq('id', id).single()
FindOtherJourneyItem(title, company_name, id) ==
    Single({j \in journey_items : j.title = title /\ j.company_name = company_name /\ j.id # id})

UpdateJourneyItem_Conflict(r) ==
    /\ pc[r] = "ju_conflict"
    /\ \E ok \in BOOLEAN : LET duplicateJourneyItem ==
               Select(ok, FindOtherJourneyItem(req[r].body.title, req[r].body.company_name, req[r].id))
           l == Logged(req[r], Call("select", 0, ok))
       IN IF duplicateJourneyItem # {}
          THEN Respond(r, l, Response(400, "Journey item with this title and company already exists", NULL))
          ELSE UpdateJourneyItem_ValidateDates(r, l)
    /\ UNCHANGED <<stores, arrived, overlap>>

\* the partial record updateJourneyItem writes
journeyUpdateData(body) ==
    [f \in {g \in {"title", "company_name", "start_date", "end_date", "details", "journey_type"} :
                Has(body, g)} |->
        CASE f = "title" -> Trim(body.title)
          [] f = "company_name" -> Trim(body.company_name)
          [] f = "start_date" -> DateString(body.start_date)
          [] f = "end_date" -> IF body.end_date # NoDate THEN DateString(body.end_date) ELSE NoDate
          [] f = "details" -> Trim(body.details)
          [] f = "journey_type" -> body.journey_type]

UpdateJourneyItem_Update(r) ==
    /\ pc[r] = "ju_update"
    /\ \E ok \in BOOLEAN :
        LET target == {j \in journey_items : j.id = req[r].id}
            done == ok /\ target # {}
            l == Logged(req[r], Call("update", 0, done))
        IN IF done
           THEN /\ journey_items' = (journey_items \ target)
                        \cup {Updated(j, journeyUpdateData(l.body)) : j \in target}
                /\ Respond(r, l, Response(200, "Journey item updated successfully", NULL))
           ELSE /\ journey_items' = journey_items
                /\ Respond(r, l, Response(500, "Failed to update journey item", NULL))
    /\ UNCHANGED <<projects, projectSeq, certifications, certSeq, journeySeq, blobs, blobSeq,
                   arrived, overlap>>

\* DELETE /api/journey/:id arrives
StartDeleteJourneyItem(r) ==
    /\ Arrive(r)
    /\ \E id \in 1..MaxId :
        Enter(r, "deleteJourneyItem", id, TRUE, <<>>, IdleReq.body)
    /\ UNCHANGED stores

DeleteJourneyItem_Lookup(r) ==
    /\ pc[r] = "jd_lookup"
    /\ \E ok \in BOOLEAN : LET existingJourneyItem == Select(ok, FindJourneyItemById(req[r].id))
           l == [Logged(req[r], Call("select", 0, ok)) EXCEPT !.existing = existingJourneyItem]
       IN IF existingJourneyItem = {}
          THEN Respond(r, l, Response(404, "Journey item not found", NULL))
          ELSE Goto(r, "jd_delete", l)
    /\ UNCHANGED <<stores, arrived, overlap>>

DeleteJourneyItem_Delete(r) ==
    /\ pc[r] = "jd_delete"
    /\ \E ok \in BOOLEAN :
        LET l == Logged(req[r], Call("delete", 0, ok))
        IN IF ok
           THEN /\ journey_items' = {j \in journey_items : j.id # req[r].id}
                /\ Respond(r, l, Response(200, "Journey item deleted successfully", NULL))
           ELSE /\ journey_items' = journey_items
                /\ Respond(r, l, Response(500, "Failed to delete journey item", NULL))
    /\ UNCHANGED <<projects, projectSeq, certifications, certSeq, journeySeq, blobs, blobSeq,
                   arrived, overlap>>

\* ---------------------------------------------------------------- list requests
\* a table of k rows, as creates without overlap leave it
ProjectRows(k) ==
    {Row(i, projectData([name |-> "p" \o ToString(i), details |-> "details of 1"], NoImage)) :
        i \in 1..k}
CertificationRows(k) ==
    {Row(i, certificationData([title |-> "t" \o ToString(i), issuer |-> "i1",
                               issued_date |-> <<1, 0>>])) : i \in 1..k}

\* the server holds up to MaxRows projects and certifications
InitList ==
    /\ \E k \in 0..MaxRows :
        /\ projects = ProjectRows(k) /\ projectSeq = k
        /\ certifications = CertificationRows(k) /\ certSeq = k
    /\ journey_items = {}
    /\ journeySeq = 0
    /\ blobs = {}
    /\ blobSeq = 0
    /\ arrived = 0
    /\ overlap = FALSE
    /\ pc = [r \in Reqs |-> "idle"]
    /\ req = [r \in Reqs |-> IdleReq]

\* GET /api/projects, GET /api/certifications arrive, past queryValidation
StartGetAll(r, op) ==
    /\ Arrive(r)
    /\ arrived < MaxListRequests
    /\ \E page \in PageParams, limit \in LimitParams :
        Goto(r, "l_query", [IdleReq EXCEPT !.op = op,
                                          !.query.page = page, !.query.limit = limit])
    /\ UNCHANGED stores

StartGetAllProjects(r) == StartGetAll(r, "getAllProjects")
StartGetAllCertifications(r) == StartGetAll(r, "getAllCertifications")

\* .order(sortBy, { ascending: false }).range(from, to) with count 'exact':
\* the ids of the rows at the positions from..to of the newest-first order
Range(rows, from, to) ==
    LET total == Cardinality(rows)
        ids == {row.id : row \in rows}
        \* the id at position i (from 0) of the descending order
        At(i) == CHOOSE id \in ids : Cardinality({j \in ids : j > id}) = i
        last == IF to < total - 1 THEN to ELSE total - 1
    IN [i \in 1..(IF last >= from THEN last - from + 1 ELSE 0) |-> At(from + i - 1)]

\* sendPaginatedResponse(data, pagination, message)
sendPaginatedResponse(data, pagination, message) ==
    [status |-> 200, message |-> message, errors |-> NULL,
     body |-> [statusCode |-> 200,
               json |-> [success |-> TRUE, message |-> message, timestamp |-> "now",
                         data |-> data,
                         pagination |-> [page |-> OrDefault(pagination.page, 1),
                                         limit |-> OrDefault(pagination.limit, 10),
                                         total |-> OrDefault(pagination.total, 0),
                                         pages |-> OrDefault(pagination.pages, 1),
                                         hasNext |-> pagination.hasNext,
                                         hasPrev |-> pagination.hasPrev]]]]

\* "Calculate pagination" of getAllProjects / getAllCertifications
Pagination(page, limit, count) ==
    LET total == OrDefault(count, 0)
        totalPages == Ceil(Num(total), limit)
    IN [page |-> parseInt(page),
        limit |-> parseInt(limit),
        total |-> total,
        pages |-> totalPages,
        hasNext |-> Less(page, Num(totalPages)),
        hasPrev |-> Less(Num(1), page)]

\* `sortBy = 'created_at'` and the like: the default of each controller
DefaultSort(op) ==
    CASE op \in {"getAllProjects", "searchProjects"} -> "created_at"
      [] op \in {"getAllCertifications", "getCertificationsByIssuer"} -> "issued_date"
      [] OTHER -> "start_date"

\* the controllers of the paginated reads from the destructuring of req.query
\* on: query.order(sortBy, ...).range(offset, offset + limit - 1) over `rows`,
\* the rows the filters of the controller let through
GetAll(r, op, rows, failure, message) ==
    /\ pc[r] = "l_query"
    /\ req[r].op = op
    /\ \E answered \in BOOLEAN :
        LET page == Default(req[r].query.page, 1)
            limit == Default(req[r].query.limit, 10)
            sortBy == IF req[r].query.sortBy = Absent THEN DefaultSort(op)
                      ELSE req[r].query.sortBy
            offset == Times(Minus(page, Num(1)), limit)
            to == Minus(Plus(offset, limit), Num(1))
            \* OFFSET must not be negative: the store answers such a query with an error
            ok == answered /\ offset.n >= 0
            l == Logged(Logged(req[r], Call("order", sortBy, TRUE)),
                        Call("range", <<offset.n, to.n>>, ok))
        IN IF ok
           THEN Respond(r, l, sendPaginatedResponse(Range(rows, offset.n, to.n),
                                                    Pagination(page, limit, Cardinality(rows)),
                                                    message))
           ELSE Respond(r, l, Response(500, failure, NULL))
    /\ UNCHANGED <<stores, arrived, overlap>>

GetAllProjects(r) ==
    GetAll(r, "getAllProjects", projects, "Failed to fetch projects",
           "Projects retrieved successfully")
GetAllCertifications(r) ==
    GetAll(r, "getAllCertifications", certifications, "Failed to fetch certifications",
           "Certifications retrieved successfully")

\* ---------------------------------------------------------------- paginated reads
\* ilike '%q%' on the lower-case strings of the model: q occurs in s
ILike(s, q) == \E i \in 1..(Len(s) - Len(q) + 1) : SubSeq(s, i, i + Len(q) - 1) = q

JourneyTypes == {"Experience", "Education", "Volunteer"}

\* isIn([...]) of query('sortBy') in the queryValidation of each router
SortFields(op) ==
    CASE op \in {"getAllProjects", "searchProjects"} -> {"created_at", "name", "updated_at"}
      [] op \in {"getAllCertifications", "getCertificationsByIssuer"} ->
           {"issued_date", "title", "issuer"}
      [] OTHER -> {"start_date", "title", "company_name"}

\* optional().isInt({ min }) and optional().isInt({ min, max }) on a query parameter
IsIntFrom(v, min) == v = UNDEFINED \/ v.n >= min
IsIntIn(v, min, max) == v = UNDEFINED \/ (v.n >= min /\ v.n <= max)

\* the parameters that break the rules of the validators the route lists:
\* queryValidation on the list routes and on /current, the inline rules of
\* /search, issuerValidation on /issuer/:issuer, typeValidation on /type/:type
QueryViolated(op, query, param) ==
    CASE op \in {"getAllProjects", "getAllCertifications", "getAllJourneyItems",
                 "getCurrentJourneyItems"} ->
           {f \in {"page", "limit", "sortBy"} :
               CASE f = "page" -> ~IsIntFrom(query.page, 1)
                 [] f = "limit" -> ~IsIntIn(query.limit, 1, 100)
                 [] f = "sortBy" -> query.sortBy # Absent /\ query.sortBy \notin SortFields(op)}
      [] op = "searchProjects" ->
           {f \in {"q", "page", "limit"} :
               CASE f = "q" -> query.q \in {Absent, ""} \/ Len(query.q) > 255
                 [] f = "page" -> ~IsIntFrom(query.page, 1)
                 [] f = "limit" -> ~IsIntIn(query.limit, 1, 50)}
      [] op = "getCertificationsByIssuer" ->
           {f \in {"issuer"} : Trim(param) = "" \/ Len(Trim(param)) > 255}
      [] op = "getJourneyByType" -> {f \in {"type"} : param \notin JourneyTypes}

PagedOps ==
    {"getAllProjects", "searchProjects", "getAllCertifications", "getCertificationsByIssuer",
     "getAllJourneyItems", "getJourneyByType", "getCurrentJourneyItems"}

\* the query strings a client may send, and the route parameter
QueryInputs(op) ==
    [page : {UNDEFINED, Str(0), Str(2)},
     limit : {UNDEFINED, Str(1), Str(101)},
     sortBy : {Absent, "title", "password"},
     q : IF op = "searchProjects" THEN {Absent, "p1", "of", "zz"} ELSE {Absent}]
RouteParams(op) ==
    CASE op = "getCertificationsByIssuer" -> {"i1", "zz"}
      [] op = "getJourneyByType" -> {"Experience", "Education", "Hobby"}
      [] OTHER -> {Absent}

\* a request arrives at a paginated read route and passes its validators and
\* validateRequest (optionalAuth lets a request without a token through)
QueryRequest(r) ==
    /\ Arrive(r)
    /\ arrived < MaxListRequests
    /\ \E op \in PagedOps : \E query \in QueryInputs(op), param \in RouteParams(op) :
        LET l == [IdleReq EXCEPT !.op = op, !.query = query, !.param = param]
            ctx == validateRequest([violated |-> QueryViolated(op, query, param),
                                    resp |-> <<>>])
        IN IF ctx.resp # <<>>
           THEN Respond(r, l, ctx.resp[1])
           ELSE Goto(r, IF op = "searchProjects" THEN "s_query" ELSE "l_query", l)
    /\ UNCHANGED stores

GetAllJourneyItems(r) ==
    GetAll(r, "getAllJourneyItems", journey_items, "Failed to fetch journey items",
           "Journey items retrieved successfully")
\* .is('end_date', null)
GetCurrentJourneyItems(r) ==
    GetAll(r, "getCurrentJourneyItems", {j \in journey_items : j.end_date = NoDate},
           "Failed to fetch current journey items",
           "Current journey items retrieved successfully")
\* .eq('journey_type', type)
GetJourneyByType(r) ==
    GetAll(r, "getJourneyByType", {j \in journey_items : j.journey_type = req[r].param},
           "Failed to fetch journey items by type",
           req[r].param \o " items retrieved successfully")
\* .ilike('issuer', `%${issuer}%`)
GetCertificationsByIssuer(r) ==
    GetAll(r, "getCertificationsByIssuer",
           {c \in certifications : ILike(c.issuer, req[r].param)},
           "Failed to fetch certifications by issuer",
           "Certifications by issuer retrieved successfully")

\* sendSearchResponse(results, searchInfo, pagination): of the pagination it
\* copies page, limit, total and pages
sendSearchResponse(results, searchInfo, pagination) ==
    [status |-> 200, message |-> "Search completed successfully", errors |-> NULL,
     body |-> [statusCode |-> 200,
               json |-> [success |-> TRUE, message |-> "Search completed successfully",
                         timestamp |-> "now",
                         data |-> results,
                         search |-> [query |-> searchInfo.query,
                                     totalResults |-> Len(results)],
                         pagination |-> [page |-> OrDefault(pagination.page, 1),
                                         limit |-> OrDefault(pagination.limit, 10),
                                         total |-> OrDefault(pagination.total, Len(results)),
                                         pages |-> OrDefault(pagination.pages, 1)]]]]

\* .or(`name.ilike.%q%,details.ilike.%q%,skills.cs.{q}`)
SearchMatches(p, q) == ILike(p.name, q) \/ ILike(p.details, q) \/ q \in {p.skills[i] : i \in DOMAIN p.skills}

\* searchProjects from the destructuring of req.query on
searchProjects(r) ==
    /\ pc[r] = "s_query"
    /\ \E answered \in BOOLEAN :
        LET page == Default(req[r].query.page, 1)
            limit == Default(req[r].query.limit, 10)
            rows == {p \in projects : SearchMatches(p, req[r].query.q)}
            offset == Times(Minus(page, Num(1)), limit)
            to == Minus(Plus(offset, limit), Num(1))
            ok == answered /\ offset.n >= 0
            l == Logged(Logged(req[r], Call("order", "created_at", TRUE)),
                        Call("range", <<offset.n, to.n>>, ok))
        IN IF ok
           THEN Respond(r, l, sendSearchResponse(Range(rows, offset.n, to.n),
                                                 [query |-> req[r].query.q],
                                                 Pagination(page, limit, Cardinality(rows))))
           ELSE Respond(r, l, Response(500, "Search failed", NULL))
    /\ UNCHANGED <<stores, arrived, overlap>>

\* journey items of several types, every second one with an end_date
JourneyRowsOfKinds(k) ==
    {Row(i, journeyItemData([title |-> "t" \o ToString(i), company_name |-> "c1",
                             start_date |-> <<1, 0>>, details |-> "details of 1",
                             end_date |-> IF i % 2 = 0 THEN <<2, 0>> ELSE NoDate,
                             journey_type |-> IF i % 2 = 0 THEN "Education" ELSE "Experience"])) :
        i \in 1..k}

\* the server holds up to MaxRows records of each kind
InitPaged ==
    /\ \E k \in 0..MaxRows :
        /\ projects = ProjectRows(k) /\ projectSeq = k
        /\ certifications = CertificationRows(k) /\ certSeq = k
        /\ journey_items = JourneyRowsOfKinds(k) /\ journeySeq = k
    /\ blobs = {}
    /\ blobSeq = 0
    /\ arrived = 0
    /\ overlap = FALSE
    /\ pc = [r \in Reqs |-> "idle"]
    /\ req = [r \in Reqs |-> IdleReq]

\* ---------------------------------------------------------------- getProjectById
\* CREATE VIEW projects_view: the columns of projects and has_image
projects_view(row) == row @@ [has_image |-> row.image_url # NoImage]

\* GET /api/projects/:id arrives
StartGetProjectById(r) ==
    /\ Arrive(r)
    /\ arrived < MaxReadRequests
    /\ \E id \in 0..MaxId, cred \in BOOLEAN :
        Enter(r, "getProjectById", id, cred, <<>>, IdleReq.body)
    /\ UNCHANGED stores

\* .from('projects_view').select('*').eq('id', id).single(): no row is the
\* error PGRST116, answered 404; any other error is answered 500
GetProjectById(r) ==
    /\ pc[r] = "g_query"
    /\ \E ok \in BOOLEAN :
        LET rows == {p \in projects : p.id = req[r].id}
            l == Logged(req[r], Call("select", 0, ok))
        IN IF ~ok THEN Respond(r, l, Response(500, "Failed to fetch project", NULL))
           ELSE IF rows = {} THEN Respond(r, l, Response(404, "Project not found", NULL))
           ELSE Respond(r, l, sendSuccess(projects_view(CHOOSE p \in rows : TRUE),
                                          "Project retrieved successfully", 200))
    /\ UNCHANGED <<stores, arrived, overlap>>

\* ---------------------------------------------------------------- uploadProjectImage
\* the controller of POST /api/projects/upload-image
uploadProjectImage(r) ==
    /\ pc[r] = "i_upload"
    /\ IF ~req[r].file
       THEN /\ Respond(r, req[r], Response(400, "No file uploaded", NULL))
            /\ UNCHANGED <<blobs, blobSeq>>
       ELSE \E ok \in BOOLEAN :
              LET fileName == blobSeq + 1
                  l == Logged(req[r], Call("upload", fileName, ok))
              IN /\ blobSeq' = blobSeq + 1
                 /\ blobs' = IF ok THEN blobs \cup {fileName} ELSE blobs
                 /\ Respond(r, l, IF ok THEN Response(201, "Image uploaded successfully", NULL)
                                  ELSE Response(500, "Failed to upload image", "Upload failed"))
    /\ UNCHANGED <<tables, arrived, overlap>>

\* ---------------------------------------------------------------- requests of any shape
\* the multipart files a client may send
FileSets ==
    {<<ImagePart>>,
     <<Part("uploadedFile", "image/png")>>,
     <<Part("image", "application/pdf")>>,
     <<Part("uploadedFile", "application/pdf")>>,
     <<Part("avatar", "image/png")>>,
     <<ImagePart, ImagePart>>}

\* the requests a client may send to one route: with or without a credential,
\* with files, or with a body that breaks the rules of the validators
Inputs(ids, valid, invalid, fileSets) ==
    [id : ids, cred : BOOLEAN, files : {<<>>}, body : valid]
    \cup [id : ids, cred : BOOLEAN, files : fileSets, body : valid]
    \cup [id : ids, cred : {TRUE}, files : {<<>>}, body : invalid]

ProjectInputs(op) ==
    CASE op = "createProject" ->
           Inputs({0}, CreateProjectBodies, InvalidCreateProjectBodies, FileSets)
      [] op = "updateProject" ->
           Inputs(0..MaxId, UpdateProjectBodies, InvalidUpdateProjectBodies, FileSets)
      [] op = "deleteProject" -> Inputs(0..MaxId, {IdleReq.body}, {}, {})
      [] op = "uploadProjectImage" -> Inputs({0}, {IdleReq.body}, {}, FileSets)

RecordInputs(op) ==
    CASE op = "createCertification" ->
           Inputs({0}, CreateCertificationBodies, InvalidCreateCertificationBodies, {})
      [] op = "updateCertification" ->
           Inputs(0..MaxId, UpdateCertificationBodies, InvalidUpdateCertificationBodies, {})
      [] op = "deleteCertification" -> Inputs(0..MaxId, {IdleReq.body}, {}, {})
      [] op = "createJourneyItem" ->
           Inputs({0}, CreateJourneyBodies, InvalidCreateJourneyBodies, {})
      [] op = "updateJourneyItem" ->
           Inputs(0..MaxId, UpdateJourneyBodies, InvalidUpdateJourneyBodies, {})
      [] op = "deleteJourneyItem" -> Inputs(0..MaxId, {IdleReq.body}, {}, {})

\* a request arrives at a route of the projects router
Request(r) ==
    /\ Arrive(r)
    /\ arrived < MaxGateRequests
    /\ \E op \in {"createProject", "updateProject", "deleteProject", "uploadProjectImage"} :
        \E in \in ProjectInputs(op) :
            /\ op = "createProject" => projectSeq + PendingInserts < MaxId
            /\ in.files # <<>> => blobSeq + PendingUploads < MaxBlobs
            /\ Enter(r, op, in.id, in.cred, in.files, in.body)
    /\ UNCHANGED stores

\* a request arrives at a route of the certifications or the journey router
RecordRequest(r) ==
    /\ Arrive(r)
    /\ arrived < MaxGateRequests
    /\ \E op \in {"createCertification", "updateCertification", "deleteCertification",
                   "createJourneyItem", "updateJourneyItem", "deleteJourneyItem"} :
        \E in \in RecordInputs(op) :
            /\ op = "createCertification" => certSeq + PendingInsertsOf(op) < MaxId
            /\ op = "createJourneyItem" => journeySeq + PendingInsertsOf(op) < MaxId
            /\ Enter(r, op, in.id, in.cred, in.files, in.body)
    /\ UNCHANGED stores

JourneyRows(k) ==
    {Row(i, journeyItemData([title |-> "t" \o ToString(i), company_name |-> "c1",
                             start_date |-> <<1, 0>>, details |-> "details of 1",
                             journey_type |-> "Experience"])) : i \in 1..k}

\* the server holds up to MaxId records of each kind; project 1 has an image
InitGate ==
    /\ \E k \in 0..MaxId :
        /\ projects = {IF p.id = 1 THEN [p EXCEPT !.image_url = PublicUrl(1)] ELSE p :
                           p \in ProjectRows(k)}
        /\ projectSeq = k
        /\ blobs = {i \in {1} : i <= k}
        /\ blobSeq = IF k = 0 THEN 0 ELSE 1
        /\ certifications = CertificationRows(k) /\ certSeq = k
        /\ journey_items = JourneyRows(k) /\ journeySeq = k
    /\ arrived = 0
    /\ overlap = FALSE
    /\ pc = [r \in Reqs |-> "idle"]
    /\ req = [r \in Reqs |-> IdleReq]

\* ---------------------------------------------------------------- specifications
\* the steps of the controllers of the projects router
ProjectWork(r) ==
    \/ CreateProject_Check(r)
    \/ CreateProject_Upload(r)
    \/ CreateProject_Insert(r)
    \/ CreateProject_Cleanup(r)
    \/ UpdateProject_Lookup(r)
    \/ UpdateProject_NameConflict(r)
    \/ UpdateProject_Upload(r)
    \/ UpdateProject_DeleteOld(r)
    \/ UpdateProject_Update(r)
    \/ UpdateProject_Cleanup(r)
    \/ DeleteProject_Lookup(r)
    \/ deleteProjectImage(r)
    \/ DeleteProject_Delete(r)

ProjectStep(r) ==
    \/ StartCreateProject(r)
    \/ StartUpdateProject(r)
    \/ StartDeleteProject(r)
    \/ ProjectWork(r)

\* the steps of the controllers of the certifications router
CertificationWork(r) ==
    \/ CreateCertification_Check(r)
    \/ CreateCertification_Insert(r)
    \/ UpdateCertification_Lookup(r)
    \/ UpdateCertification_Conflict(r)
    \/ UpdateCertification_Update(r)
    \/ DeleteCertification_Lookup(r)
    \/ DeleteCertification_Delete(r)

CertificationStep(r) ==
    \/ StartCreateCertification(r)
    \/ StartUpdateCertification(r)
    \/ StartDeleteCertification(r)
    \/ CertificationWork(r)

\* the steps of the controllers of the journey router
JourneyWork(r) ==
    \/ CreateJourneyItem_Check(r)
    \/ CreateJourneyItem_Insert(r)
    \/ UpdateJourneyItem_Lookup(r)
    \/ UpdateJourneyItem_Conflict(r)
    \/ UpdateJourneyItem_Update(r)
    \/ DeleteJourneyItem_Lookup(r)
    \/ DeleteJourneyItem_Delete(r)

JourneyStep(r) ==
    \/ StartCreateJourneyItem(r)
    \/ StartUpdateJourneyItem(r)
    \/ StartDeleteJourneyItem(r)
    \/ JourneyWork(r)

Next == \E r \in Reqs : ProjectStep(r)
NextRecords == \E r \in Reqs : CertificationStep(r) \/ JourneyStep(r)

\* requests on projects, interleaved at their awaits
Spec == Init /\ [][Next]_vars

\* requests on projects that do not overlap
SpecSeq == InitSeq /\ [][Next]_vars

\* requests on certifications and journey items that do not overlap
SpecRecordsSeq == InitSeq /\ [][NextRecords]_vars

ListStep(r) ==
    \/ StartGetAllProjects(r)
    \/ GetAllProjects(r)
    \/ StartGetAllCertifications(r)
    \/ GetAllCertifications(r)

NextList == \E r \in Reqs : ListStep(r)

NextGate ==
    \E r \in Reqs :
        \/ Request(r)
        \/ RecordRequest(r)
        \/ ProjectWork(r)
        \/ uploadProjectImage(r)
        \/ CertificationWork(r)
        \/ JourneyWork(r)

\* one request at a route of the projects router, and reads of single projects
NextRead ==
    \E r \in Reqs :
        \/ Request(r)
        \/ ProjectWork(r)
        \/ uploadProjectImage(r)
        \/ StartGetProjectById(r)
        \/ GetProjectById(r)

\* the paginated read routes with their validators
NextPaged ==
    \E r \in Reqs :
        \/ QueryRequest(r)
        \/ GetAllProjects(r)
        \/ searchProjects(r)
        \/ GetAllCertifications(r)
        \/ GetCertificationsByIssuer(r)
        \/ GetAllJourneyItems(r)
        \/ GetJourneyByType(r)
        \/ GetCurrentJourneyItems(r)

\* list requests on tables of up to MaxRows rows
SpecList == InitList /\ [][NextList]_vars

\* requests of any shape at the mutating routes, on stores that hold records
SpecGate == InitGate /\ [][NextGate]_vars

\* the server holds the project that a create with an image has stored
InitWrite ==
    /\ projects = {Row(1, projectData([name |-> "a", details |-> "details of 1"], PublicUrl(1)))}
    /\ projectSeq = 1
    /\ blobs = {1} /\ blobSeq = 1
    /\ certifications = {} /\ certSeq = 0
    /\ journey_items = {} /\ journeySeq = 0
    /\ arrived = 0
    /\ overlap = TRUE
    /\ pc = [r \in Reqs |-> "idle"]
    /\ req = [r \in Reqs |-> IdleReq]

NextWrite == \E r \in Reqs : Request(r) \/ ProjectWork(r) \/ uploadProjectImage(r)

\* requests of any shape at the routes of the projects router, where every
\* external call returns: after each awaited call the event loop runs the
\* continuation of the controller
SpecWrite == InitWrite /\ [][NextWrite]_vars /\ \A r \in Reqs : WF_vars(ProjectWork(r))

\* requests on projects, interleaved at their awaits, on a store that holds a
\* project with an image
SpecImages == InitWrite /\ [][Next]_vars

\* the server holds one journey item, from day 1 to day 3
InitJourney ==
    /\ journey_items = {Row(1, journeyItemData([title |-> "t1", company_name |-> "c1",
                                                  start_date |-> <<1, 0>>, end_date |-> <<3, 0>>,
                                                  details |-> "details of 1",
                                                  journey_type |-> "Experience"]))}
    /\ journeySeq = 1
    /\ projects = {} /\ projectSeq = 0
    /\ certifications = {} /\ certSeq = 0
    /\ blobs = {} /\ blobSeq = 0
    /\ arrived = 0
    /\ overlap = TRUE
    /\ pc = [r \in Reqs |-> "idle"]
    /\ req = [r \in Reqs |-> IdleReq]

NextJourney ==
    \E r \in Reqs :
        \/ StartUpdateJourneyItem(r)
        \/ UpdateJourneyItem_Lookup(r)
        \/ UpdateJourneyItem_Conflict(r)
        \/ UpdateJourneyItem_Update(r)

\* updates of journey items, interleaved at their awaits
SpecJourney == InitJourney /\ [][NextJourney]_vars

\* the stores after creates with one natural key: one record of each kind, or
\* the records that creates passing their duplicate check together have left
InitDuplicates ==
    /\ \E n \in 1..MaxId :
        /\ projects = {Row(i, projectData([name |-> "a", details |-> "details of 1"], NoImage)) :
                           i \in 1..n}
        /\ projectSeq = n
        /\ certifications = {Row(i, certificationData([title |-> "t1", issuer |-> "i1",
                                                          issued_date |-> <<1, 0>>])) : i \in 1..n}
        /\ certSeq = n
        /\ journey_items = {Row(i, journeyItemData([title |-> "t1", company_name |-> "c1",
                                                       start_date |-> <<1, 0>>,
                                                       details |-> "details of 1",
                                                       journey_type |-> "Experience"])) : i \in 1..n}
        /\ journeySeq = n
    /\ blobs = {} /\ blobSeq = 0
    /\ arrived = 0
    /\ overlap = TRUE
    /\ pc = [r \in Reqs |-> "idle"]
    /\ req = [r \in Reqs |-> IdleReq]

CreateBodies(op) ==
    CASE op = "createProject" -> CreateProjectBodies
      [] op = "createCertification" -> CreateCertificationBodies
      [] op = "createJourneyItem" -> CreateJourneyBodies

\* a further create arrives at POST /api/projects, /api/certifications or /api/journey
CreateRequest(r) ==
    /\ Arrive(r)
    /\ arrived < MaxGateRequests
    /\ \E op \in {"createProject", "createCertification", "createJourneyItem"} :
        \E body \in CreateBodies(op), file \in BOOLEAN :
            /\ file => (op = "createProject" /\ blobSeq + PendingUploads < MaxBlobs)
            /\ Enter(r, op, 0, TRUE, IF file THEN <<ImagePart>> ELSE <<>>, body)
    /\ UNCHANGED stores

NextDuplicates ==
    \E r \in Reqs :
        \/ CreateRequest(r)
        \/ CreateProject_Check(r)
        \/ CreateProject_Upload(r)
        \/ CreateProject_Insert(r)
        \/ CreateProject_Cleanup(r)
        \/ CreateCertification_Check(r)
        \/ CreateCertification_Insert(r)
        \/ CreateJourneyItem_Check(r)
        \/ CreateJourneyItem_Insert(r)

\* creates on stores that already hold records with the requested key
SpecDuplicates == InitDuplicates /\ [][NextDuplicates]_vars

\* requests of any shape at the paginated read routes
SpecPaged == InitPaged /\ [][NextPaged]_vars

\* a write to the projects, then reads of single projects, without overlap
SpecRead == InitGate /\ [][NextRead]_vars

\* ---------------------------------------------------------------- claims
Done(r, op) == pc[r] = "done" /\ req[r].op = op
Sent(r) == req[r].resp[1]
Conflict(r) ==
    /\ Len(req[r].resp) = 1
    /\ Sent(r).status = 400
    /\ Sent(r).message = "Project with this name already exists"
CallsOf(r, name) == {i \in 1..Len(req[r].calls) : req[r].calls[i].call = name}
FaultFree(r) == \A i \in 1..Len(req[r].calls) : req[r].calls[i].ok

\* C1 (state part): a createProject that answered Conflict made no call but its
\* duplicate check; one that met no conflict and no backend fault answered 201
C1_Done ==
    \A r \in Reqs : Done(r, "createProject") =>
        /\ Conflict(r) => req[r].calls = <<Call("select", 0, TRUE)>>
        /\ (~Conflict(r) /\ FaultFree(r)) => (Len(req[r].resp) = 1 /\ Sent(r).status = 201)

\* C1 (step part): the duplicate check ends in Conflict exactly when a row with
\* the same name is in the store, and then changes nothing; the insert of a
\* create adds exactly one record
C1_Step ==
    \A r \in Reqs :
        /\ (pc[r] = "c_check" /\ pc'[r] # "c_check") =>
              /\ (pc'[r] = "done" /\ Conflict(r)')
                    <=> (\E p \in projects : p.name = req[r].body.name)
              /\ pc'[r] = "done" => UNCHANGED stores
        /\ (pc[r] = "c_insert" /\ pc'[r] = "done" /\ Sent(r)'.status = 201) =>
              /\ Cardinality(projects') = Cardinality(projects) + 1
              /\ projects \subseteq projects'
              /\ \E p \in projects' \ projects : p.name = req[r].body.name
              /\ Cardinality({p \in projects' : p.name = req[r].body.name}) = 1

\* C1: in runs without overlap createProject answers Conflict (400, nothing
\* uploaded, nothing inserted, store unchanged) if and only if a project of
\* exactly that name is in the store; otherwise, with a working backend, it
\* answers 201 and adds exactly one record
C1_ConflictIffNameExists == []C1_Done /\ [][C1_Step]_vars

C1_Witness ==
    \E r \in Reqs :
        /\ Done(r, "createProject") /\ Conflict(r)
        /\ \E p \in projects : p.name = req[r].body.name
        /\ \E q \in Reqs \ {r} : Done(q, "createProject") /\ Sent(q).status = 201

\* the natural keys of the certifications and of the journey items are unique
C2_NoDuplicateKey ==
    /\ \A c, d \in certifications : (c.title = d.title /\ c.issuer = d.issuer) => c.id = d.id
    /\ \A j, k \in journey_items :
          (j.title = k.title /\ j.company_name = k.company_name) => j.id = k.id

\* an update that is written leaves the record with a key no other record has
C2_Step ==
    \A r \in Reqs :
        /\ (pc[r] = "cu_update" /\ pc'[r] = "done" /\ Sent(r)'.status = 200) =>
              \A c, d \in certifications' :
                  (c.id = req[r].id /\ c.title = d.title /\ c.issuer = d.issuer) => c.id = d.id
        /\ (pc[r] = "ju_update" /\ pc'[r] = "done" /\ Sent(r)'.status = 200) =>
              \A j, k \in journey_items' :
                  (j.id = req[r].id /\ j.title = k.title /\ j.company_name = k.company_name)
                      => j.id = k.id

\* C2: an update of a certification or journey item whose resulting natural key
\* (the stored value standing in for a key field the body leaves out) is the key
\* of another record is never written, whether the body carries both key fields
\* or one; so in runs without overlap no two records share a natural key
C2_UpdateKeepsKeysUnique == []C2_NoDuplicateKey /\ [][C2_Step]_vars

\* the file name a request's successful upload stored, as a set
Uploaded(r) == {req[r].calls[i].arg : i \in {k \in CallsOf(r, "upload") : req[r].calls[k].ok}}
UploadFailed(r) == \E i \in CallsOf(r, "upload") : ~req[r].calls[i].ok
Persists(r) == CallsOf(r, "insert") \cup CallsOf(r, "update")
PersistFailed(r) == \E i \in Persists(r) : ~req[r].calls[i].ok
RemovesOf(r, fileName) == {i \in CallsOf(r, "remove") : req[r].calls[i].arg = fileName}
\* the file name of the image the record had when the request looked it up
OldImage(r) == {extractFilenameFromUrl(p.image_url) : p \in {q \in req[r].existing : q.image_url # NoImage}}

\* C3: the insert of a create does not look at the name again: while a create
\* that has passed its duplicate check waits for its insert and another create
\* of the same name has already been answered 201, the insert can still succeed,
\* be answered 201 and leave two records of that name
C3_InsertAfterCheckIsNotAtomic ==
    \A r, q \in Reqs :
        (/\ pc[r] = "c_insert" /\ req[r].op = "createProject"
         /\ Done(q, "createProject") /\ Sent(q).status = 201
         /\ req[q].body.name = req[r].body.name
         /\ \E p \in projects : p.name = req[r].body.name)
        => ENABLED (/\ CreateProject_Insert(r)
                    /\ pc'[r] = "done"
                    /\ Sent(r)'.status = 201
                    /\ Cardinality({p \in projects' : p.name = req[r].body.name}) >= 2)

C3_Witness ==
    \E r, q \in Reqs :
        /\ r # q
        /\ Done(r, "createProject") /\ Sent(r).status = 201
        /\ Done(q, "createProject") /\ Sent(q).status = 201
        /\ req[r].body.name = req[q].body.name
        /\ Cardinality({p \in projects : p.name = req[r].body.name}) = 2

\* a request whose upload failed answered 400 and called neither store again
C4_Done ==
    \A r \in Reqs : (req[r].op \in {"createProject", "updateProject"} /\ UploadFailed(r)) =>
        /\ pc[r] = "done"
        /\ req[r].resp = <<Response(400, "Failed to upload image. Please ensure the file is a valid image and under 10MB.", NULL)>>
        /\ Persists(r) = {} /\ CallsOf(r, "remove") = {} /\ CallsOf(r, "delete") = {}
        /\ req[r].calls[Len(req[r].calls)].call = "upload"

\* the step in which the upload fails changes no record and no stored image
C4_Step ==
    \A r \in Reqs : (pc[r] \in {"c_upload", "u_upload"} /\ UploadFailed(r)') =>
        UNCHANGED <<tables, blobs>>

\* C4: when the image store fails in createProject or updateProject the request
\* ends with 400 and issues no insert or update: the records are unchanged and,
\* on update, the image the project had is not deleted
C4_UploadFailureAborts == []C4_Done /\ [][C4_Step]_vars

C4_Witness ==
    \E r \in Reqs :
        /\ Done(r, "updateProject") /\ UploadFailed(r)
        /\ OldImage(r) # {} /\ OldImage(r) \subseteq blobs
        /\ req[r].existing \subseteq projects

\* C5: a createProject or updateProject that stored a new image deletes that
\* image if and only if its insert/update returned an error, never before the
\* error is known, and then answers 500
C5_CleanupIffPersistFailed ==
    \A r \in Reqs : \A n \in Uploaded(r) :
        /\ \A j \in RemovesOf(r, n) : \E k \in Persists(r) : k < j /\ ~req[r].calls[k].ok
        /\ pc[r] = "done" =>
              /\ RemovesOf(r, n) # {} <=> PersistFailed(r)
              /\ PersistFailed(r) => (Len(req[r].resp) = 1 /\ Sent(r).status = 500)

C5_Witness ==
    \E r \in Reqs : \E n \in Uploaded(r) :
        /\ Done(r, "updateProject") /\ PersistFailed(r)
        /\ RemovesOf(r, n) # {} /\ n \notin blobs
        /\ Sent(r).status = 500

FailedCleanup(r) ==
    \E n \in Uploaded(r) : \E j \in RemovesOf(r, n) : ~req[r].calls[j].ok

\* C6: when the delete of the just uploaded image fails after a persistence
\* failure, the caller still gets exactly one response, 500 with the message of
\* the persistence failure and no further error
C6_CleanupFailureIsSwallowed ==
    \A r \in Reqs : (pc[r] = "done" /\ FailedCleanup(r)) =>
        /\ req[r].op = "createProject" =>
              req[r].resp = <<Response(500, "Failed to create project", NULL)>>
        /\ req[r].op = "updateProject" =>
              req[r].resp = <<Response(500, "Failed to update project", NULL)>>

C6_Witness ==
    \E r \in Reqs : \E n \in Uploaded(r) :
        /\ Done(r, "createProject") /\ FailedCleanup(r)
        /\ n \in blobs /\ Sent(r).status = 500

\* C7: updateProject deletes the old image only after the record update has
\* succeeded; when the update fails the old image is still in the blob store
C7_OldImageDeletedAfterUpdate ==
    \A r \in Reqs : req[r].op = "updateProject" =>
        \A n \in OldImage(r) : \A j \in RemovesOf(r, n) :
            \E k \in CallsOf(r, "update") : k < j /\ req[r].calls[k].ok

\* C8: the write of an updateProject that carries no file leaves the image_url
\* of the project as it was just before the write, in every interleaving
C8_NoFileKeepsImageUrl ==
    [][\A r \in Reqs :
          (pc[r] = "u_update" /\ ~req[r].file /\ pc'[r] = "done" /\ Sent(r)'.status = 200) =>
              \A p \in projects : \A q \in projects' :
                  (p.id = req[r].id /\ q.id = req[r].id) => q.image_url = p.image_url]_vars

\* the columns a row has besides its id
Columns(row) == DOMAIN row \ {"id"}

\* the write of `r` on `table` changed only the columns named in `supplied`
OnlySupplied(r, before, after, supplied) ==
    /\ \A p \in before : p.id # req[r].id => p \in after
    /\ \A q \in after : q.id # req[r].id => q \in before
    /\ \A p \in before : \A q \in after :
          (p.id = req[r].id /\ q.id = req[r].id) =>
              \A f \in Columns(p) \ supplied : q[f] = p[f]

Written(r, at) == pc[r] = at /\ pc'[r] = "done" /\ Sent(r)'.status = 200

\* C9: a successful update of a project, certification or journey item changes
\* only the fields the request supplies (image_url being supplied by the file);
\* every other field keeps its stored value and no other record is changed
C9_UpdateChangesOnlySupplied ==
    [][\A r \in Reqs :
          /\ Written(r, "u_update") =>
                OnlySupplied(r, projects, projects',
                             DOMAIN req[r].body \cup (IF req[r].file THEN {"image_url"} ELSE {}))
          /\ Written(r, "cu_update") =>
                OnlySupplied(r, certifications, certifications', DOMAIN req[r].body)
          /\ Written(r, "ju_update") =>
                OnlySupplied(r, journey_items, journey_items', DOMAIN req[r].body)]_vars

\* a deleteProject of a project with an image tried to delete the image before
\* the record, and its answer follows the delete of the record alone
C10_Done ==
    \A r \in Reqs : (Done(r, "deleteProject") /\ OldImage(r) # {}) =>
        /\ \A n \in OldImage(r) : \E j \in RemovesOf(r, n) : \A k \in CallsOf(r, "delete") : j < k
        /\ Cardinality(CallsOf(r, "delete")) = 1
        /\ \A k \in CallsOf(r, "delete") :
              req[r].resp = <<IF req[r].calls[k].ok
                              THEN Response(200, "Project deleted successfully", NULL)
                              ELSE Response(500, "Failed to delete project", NULL)>>

\* the delete of the record removes it
C10_Step ==
    \A r \in Reqs : (pc[r] = "d_delete" /\ pc'[r] = "done" /\ Sent(r)'.status = 200) =>
        \A p \in projects' : p.id # req[r].id

\* C10: deleteProject of a project with an image tries to delete the blob and
\* removes the record; a failed blob delete changes nothing of that: the record
\* is deleted and the caller receives 200
C10_DeleteIgnoresBlobFailure == []C10_Done /\ [][C10_Step]_vars

C10_Witness ==
    \E r \in Reqs :
        /\ Done(r, "deleteProject") /\ Sent(r).status = 200
        /\ \E n \in OldImage(r) : \E j \in RemovesOf(r, n) : ~req[r].calls[j].ok /\ n \in blobs
        /\ \A p \in projects : p.id # req[r].id

\* the page and the limit a list request asks for, and the rows of its table
ListOps == {"getAllProjects", "getAllCertifications"}
AskedPage(r) == IF req[r].query.page = UNDEFINED THEN 1 ELSE req[r].query.page.n
AskedLimit(r) == IF req[r].query.limit = UNDEFINED THEN 10 ELSE req[r].query.limit.n
Listed(r) == IF req[r].op = "getAllProjects" THEN projects ELSE certifications
ListResponse(r) == pc[r] = "done" /\ req[r].op \in ListOps /\ Sent(r).status = 200

\* C11: every list response over `total` rows (total = 0 included) for page p
\* and limit L reports pages = ceil(total / L), hasNext = (p < pages) and
\* hasPrev = (p > 1)
C11_PaginationOfListResponse ==
    \A r \in Reqs : ListResponse(r) =>
        LET total == Cardinality(Listed(r))
            pages == (total + AskedLimit(r) - 1) \div AskedLimit(r)
            pagination == Sent(r).body.json.pagination
        IN /\ pagination.pages = pages
           /\ pagination.hasNext = (AskedPage(r) < pages)
           /\ pagination.hasPrev = (AskedPage(r) > 1)

\* C12: every list request for page p and limit L, defaulted or supplied in
\* the query string, asks the record store for the inclusive row range
\* [(p-1)*L, (p-1)*L + L - 1]
C12_RangeOfListRequest ==
    \A r \in Reqs : (pc[r] = "done" /\ req[r].op \in ListOps) =>
        LET offset == (AskedPage(r) - 1) * AskedLimit(r)
        IN \A i \in CallsOf(r, "range") :
              req[r].calls[i].arg = <<offset, offset + AskedLimit(r) - 1>>

CreateOps == {"createProject", "createCertification", "createJourneyItem"}
MutatingOps ==
    {"createProject", "updateProject", "deleteProject", "uploadProjectImage",
     "createCertification", "updateCertification", "deleteCertification",
     "createJourneyItem", "updateJourneyItem", "deleteJourneyItem"}
\* the calls of a request that change a record or a stored image
Effects(r) ==
    Persists(r) \cup CallsOf(r, "delete") \cup CallsOf(r, "upload") \cup CallsOf(r, "remove")
Rejected(r, status) == pc[r] = "done" /\ Len(req[r].resp) = 1 /\ Sent(r).status = status

\* the name of a project, the title of a certification or journey item
NameOrTitle(body) == IF Has(body, "name") THEN body.name ELSE body.title
TooShortOrLong(body) ==
    \/ Has(body, "details") /\ Len(body.details) < 10
    \/ NameOrTitle(body) = ""
    \/ Len(NameOrTitle(body)) > 255

\* C13: a create whose details is shorter than 10 characters, or whose name or
\* title is empty or longer than 255 characters, is answered 400 before any
\* side effect: nothing is uploaded, nothing is inserted
C13_InvalidCreateIsRejected ==
    \A r \in Reqs : (req[r].op \in CreateOps /\ TooShortOrLong(req[r].body)) =>
        /\ Effects(r) = {}
        /\ pc[r] = "done" => (Rejected(r, 400) /\ req[r].calls = <<>>)

\* the fields of the request that break the rules of the validators of its route
Violated(r) ==
    Through(SelectSeq(Route(req[r].op), LAMBDA m : m # "validateRequest"), 1,
            [id |-> req[r].id, cred |-> req[r].cred, files |-> req[r].files,
             body |-> req[r].body, file |-> {}, error |-> "", violated |-> {},
             resp |-> <<>>]).violated

\* C14: the 400 response of a failed validation carries an errors map with one
\* entry for every field that breaks the rules, never none
C14_ValidationErrorsNameEveryField ==
    \A r \in Reqs :
        (pc[r] = "done" /\ Len(req[r].resp) = 1 /\ Sent(r).message = "Validation failed") =>
            /\ Sent(r).status = 400
            /\ DOMAIN Sent(r).body.json.errors = Violated(r)
            /\ DOMAIN Sent(r).body.json.errors # {}

\* every stored journey item with an end_date ends strictly after it starts
C15_StoredRange ==
    \A j \in journey_items : j.end_date # NoDate => ~DateLeq(j.end_date, j.start_date)

\* the start_date the request resolves to, as a set: the body's, else the stored one
ResolvedStart(r) ==
    IF Has(req[r].body, "start_date") THEN {req[r].body.start_date}
    ELSE {j.start_date : j \in req[r].existing}

DateRejected(r) ==
    Rejected(r, 400) /\ Sent(r).message = "End date must be after start date"

\* a create or update of a journey item whose end_date is not after the
\* resolved start_date never writes; one whose end_date is after it is never
\* answered with the date error
C15_Done ==
    \A r \in Reqs : (req[r].op \in {"createJourneyItem", "updateJourneyItem"}
                      /\ Has(req[r].body, "end_date") /\ req[r].body.end_date # NoDate) =>
        \A start \in ResolvedStart(r) :
            /\ DateLeq(req[r].body.end_date, start) =>
                  /\ Persists(r) = {}
                  /\ pc[r] = "done" => Rejected(r, 400)
            /\ ~DateLeq(req[r].body.end_date, start) => ~DateRejected(r)

\* C15: a create or update of a journey item whose end_date is present and not
\* strictly later than the resolved start_date is answered 400 and changes
\* nothing, one whose end_date is strictly later is never rejected for its
\* dates; so in runs without overlap every stored journey item with an end_date
\* has end_date > start_date
C15_EndDateAfterStartDate == C15_Done /\ C15_StoredRange

\* C16: a request without a valid bearer credential never reaches a controller
\* of a mutating route: it makes no call to the store or the blob store, so it
\* inserts, updates and deletes no record and no stored image
C16_MutationsAreAuthenticated ==
    \A r \in Reqs : (req[r].op \in MutatingOps /\ ~req[r].cred) =>
        /\ Effects(r) = {}
        /\ req[r].calls = <<>>

\* the route of the operation has the auth gate, and the request has no credential
Unauthenticated(r) ==
    /\ ~req[r].cred
    /\ \E i \in 1..Len(Route(req[r].op)) : Route(req[r].op)[i] = "authenticate"

BadMime(r) == \E i \in 1..Len(req[r].files) : req[r].files[i].mimetype \notin allowedTypes

OneImage(locals) ==
    /\ Len(locals.files) = 1
    /\ locals.files[1].fieldname \in {"image", "uploadedFile"}
    /\ locals.files[1].mimetype \in allowedTypes

\* the controller gets the file as req.file under the name 'image'; it is
\* uploaded before anything is written, and an image upload is never answered
\* "No file uploaded"
C18_Received ==
    \A r \in Reqs : (req[r].op \in MutatingOps /\ OneImage(req[r]) /\ ~Unauthenticated(r)) =>
        /\ req[r].reqfile = {Part("image", req[r].files[1].mimetype)}
        /\ req[r].file
        /\ Persists(r) # {} => CallsOf(r, "upload") # {}
        /\ Done(r, "uploadProjectImage") => Sent(r).status \in {201, 500}

\* the request that arrives with its file under 'uploadedFile' stands where the
\* same request with the file under 'image' stands
C18_Arrival ==
    \A r \in Reqs :
        (arrived' = arrived + 1 /\ req'[r] # req[r] /\ OneImage(req'[r])) =>
            LET l == req'[r]
                twin == Admitted(l.op, l.id, l.cred,
                                 <<Part("image", l.files[1].mimetype)>>, l.body)
            IN /\ pc'[r] = twin.pc
               /\ [l EXCEPT !.files = <<>>] = [twin.locals EXCEPT !.files = <<>>]

\* C18: one file sent under 'image' and the same file sent under 'uploadedFile'
\* are handled alike: the controller receives it as req.file named 'image' and
\* the request goes the same way, with the same upload and the same writes
C18_FieldNamesAreEquivalent == []C18_Received /\ [][C18_Arrival]_vars

C18_Witness ==
    \E r \in Reqs :
        /\ Done(r, "createProject") /\ Sent(r).status = 201
        /\ req[r].files = <<Part("uploadedFile", "image/png")>>
        /\ \E n \in Uploaded(r) : \E p \in projects :
              p.name = req[r].body.name /\ p.image_url = PublicUrl(n) /\ n \in blobs

\* C19: the body of every error response has the envelope of the success
\* responses at its top level: success = false, message and timestamp, and
\* optionally errors
C19_ErrorEnvelope ==
    \A r \in Reqs : \A i \in 1..Len(req[r].resp) :
        req[r].resp[i].status >= 400 =>
            /\ {"success", "message", "timestamp"} \subseteq DOMAIN req[r].resp[i].body
            /\ DOMAIN req[r].resp[i].body \subseteq {"success", "message", "timestamp", "errors"}
            /\ req[r].resp[i].body.success = FALSE

\* the row a createProject without skills in its body inserts has skills = <<>>
C20_Insert ==
    \A r \in Reqs : \A p \in projects' :
        (/\ req[r].op = "createProject" /\ ~Has(req[r].body, "skills")
         /\ pc'[r] # pc[r] /\ p.id \notin {q.id : q \in projects}) => p.skills = <<>>

\* C20: the skills of every stored project is a sequence, never null, whatever
\* skills was in the body of the create or update that wrote it; a create
\* without skills stores the empty sequence
C20_SkillsIsASequence ==
    /\ [](\A p \in projects : p.skills \in Seq({"js"}))
    /\ [][C20_Insert]_vars

C20_Witness ==
    \E r \in Reqs :
        /\ Done(r, "createProject") /\ Sent(r).status = 201
        /\ Has(req[r].body, "skills") /\ ~req[r].body.skills.isArray
        /\ \E p \in projects : p.name = req[r].body.name /\ p.skills = <<>>

\* the value the caller supplied for field f of a create, and the value the
\* record read back has for it (skills as the JSON value it is)
Supplied(body, f) == body[f]
ReadBack(data, f) == IF f = "skills" THEN [isArray |-> TRUE, items |-> data.skills] ELSE data[f]

\* C21: a project read by the id a successful createProject returned, with the
\* record as the create left it, has for every field the caller supplied
\* exactly the supplied value, and has_image is true exactly when a file was
\* attached to the create
C21_RoundTrip ==
    [][\A r, q \in Reqs :
          (/\ pc[r] = "g_query" /\ pc'[r] = "done" /\ Sent(r)'.status = 200
           /\ Done(q, "createProject") /\ Len(req[q].resp) = 1 /\ Sent(q).status = 201
           /\ Sent(q).body.json.data \in projects
           /\ Sent(q).body.json.data.id = req[r].id) =>
              LET data == Sent(r)'.body.json.data
                  body == req[q].body
              IN /\ \A f \in DOMAIN body \cap {"name", "details", "skills", "demo_link", "github_link"} :
                        ReadBack(data, f) = Supplied(body, f)
                 /\ data.has_image <=> (req[q].files # <<>>)]_vars
\* the order column and the window of the store queries of a paginated read
OutOfBounds(r) ==
    \/ AskedPage(r) < 1
    \/ AskedLimit(r) < 1 \/ AskedLimit(r) > 100
    \/ (req[r].op # "searchProjects" /\ req[r].query.sortBy # Absent
        /\ req[r].query.sortBy \notin SortFields(req[r].op))

\* C22: on every paginated read route the record store is never queried for a
\* page below 1, a limit outside [1, 100] or an order column outside the
\* allow-list of the resource: such a request is answered 400 before any query
C22_QueriesWithinBounds ==
    \A r \in Reqs : req[r].op \in PagedOps =>
        /\ \A i \in CallsOf(r, "order") : req[r].calls[i].arg \in SortFields(req[r].op)
        /\ OutOfBounds(r) => (Rejected(r, 400) /\ req[r].calls = <<>>)
\* the projects a search for q matches
Found(r) == {p \in projects : SearchMatches(p, req[r].query.q)}

\* C25: the response of the project search carries the pagination of the list
\* routes: for `total` matching rows, page p and limit L, pages = ceil(total / L),
\* hasNext = (p < pages), hasPrev = (p > 1), and total counts all matching rows,
\* not the rows of the page
C25_SearchPagination ==
    \A r \in Reqs : (Done(r, "searchProjects") /\ Sent(r).status = 200) =>
        LET total == Cardinality(Found(r))
            pages == (total + AskedLimit(r) - 1) \div AskedLimit(r)
            pagination == Sent(r).body.json.pagination
        IN /\ pagination.total = total
           /\ pagination.pages = pages
           /\ {"hasNext", "hasPrev"} \subseteq DOMAIN pagination
           /\ pagination.hasNext = (AskedPage(r) < pages)
           /\ pagination.hasPrev = (AskedPage(r) > 1)

\* the requests whose first store query, the lookup of the record (update, delete)
\* or the duplicate check (create), was answered with an error
LookupFailed(r) ==
    /\ pc[r] = "done"
    /\ req[r].calls # <<>>
    /\ req[r].calls[1].call = "select"
    /\ ~req[r].calls[1].ok

\* C23: a failure of the store during the existence lookup of an update or a delete
\* is answered with 500, never with 404 (404 only when no record has the id), and a
\* failure during the duplicate check of a create is not taken for 'no duplicate':
\* the create goes no further
C23_LookupFailureIsAnError ==
    \A r \in Reqs : LookupFailed(r) =>
        IF req[r].op \in CreateOps
        THEN Len(req[r].calls) = 1 /\ Sent(r).status = 500
        ELSE Sent(r).status = 500

\* the routes that store an image
ImageOps == {"createProject", "updateProject", "uploadProjectImage"}

\* C24: on every route that stores an image (POST /api/projects,
\* PUT /api/projects/:id, POST /api/projects/upload-image) a failure of the blob
\* store while storing the image is answered with HTTP 400
C24_UploadFailureIs400 ==
    \A r \in Reqs : (pc[r] = "done" /\ req[r].op \in ImageOps /\ UploadFailed(r)) =>
        Sent(r).status = 400

\* the create and the update of a project
WriteOps == {"createProject", "updateProject"}

\* the outcomes of the state machine of create/update that a finished request shows
Outcomes(r) ==
    {o \in {"Done", "ValidationFailed", "Conflict", "UploadFailed", "PersistFailed"} :
        CASE o = "Done" -> Sent(r).status \in {200, 201}
          [] o = "ValidationFailed" -> Sent(r).status = 400 /\ Sent(r).message = "Validation failed"
          [] o = "Conflict" -> Conflict(r)
          [] o = "UploadFailed" -> Sent(r).status = 400
                                     /\ ("error" \in DOMAIN Sent(r).body \/ UploadFailed(r))
          [] o = "PersistFailed" -> Sent(r).status = 500}

\* the outcomes that precede the state machine: no credential, no record of the id
Refusals(r) ==
    {o \in {"Unauthenticated", "NotFound"} :
        CASE o = "Unauthenticated" -> Sent(r).status = 401
          [] o = "NotFound" -> Sent(r).status = 404}

\* C26 as stated: every finished create or update sent one response and shows
\* exactly one of Done, ValidationFailed, Conflict, UploadFailed, PersistFailed
C26_FiveOutcomes ==
    \A r \in Reqs : (pc[r] = "done" /\ req[r].op \in WriteOps) =>
        Len(req[r].resp) = 1 /\ Cardinality(Outcomes(r)) = 1

C26_Done ==
    \A r \in Reqs : req[r].op \in WriteOps =>
        /\ Len(req[r].resp) = IF pc[r] = "done" THEN 1 ELSE 0
        /\ pc[r] = "done" =>
              /\ Cardinality(Outcomes(r) \cup Refusals(r)) = 1
              /\ (Outcomes(r) = {"ValidationFailed"} \/ Refusals(r) = {"Unauthenticated"})
                    => req[r].calls = <<>>
              /\ Outcomes(r) = {"Conflict"} => Uploaded(r) \cup Persists(r) = {}
              /\ Outcomes(r) = {"UploadFailed"} => Persists(r) = {}
              /\ Refusals(r) = {"NotFound"} => Len(req[r].calls) = 1

\* a finished request does nothing more
C26_Step ==
    \A r \in Reqs : (pc[r] = "done" /\ req[r].op \in WriteOps /\ arrived' = arrived) =>
        (pc'[r] = "done" /\ req'[r] = req[r])

\* C26: every create or update of a project, each external call returning, sends
\* exactly one response and ends in exactly one of Done (201/200),
\* ValidationFailed, Conflict, UploadFailed, PersistFailed, or, before the state
\* machine is entered, Unauthenticated (401) or NotFound (404); nothing is sent
\* twice and no upload or persist follows a failure response
C26_OneResponseOneOutcome ==
    /\ []C26_Done
    /\ [][C26_Step]_vars
    /\ \A r \in Reqs : (pc[r] \notin {"idle", "done"} /\ req[r].op \in WriteOps) ~> (pc[r] = "done")

C26_Witness ==
    \E r \in Reqs :
        /\ pc[r] = "done" /\ req[r].op \in WriteOps
        /\ Outcomes(r) = {"PersistFailed"}
        /\ Uploaded(r) # {}

\* the stored records with the natural key of the create request r
KeyRows(r) ==
    CASE req[r].op = "createProject" -> {p \in projects : p.name = req[r].body.name}
      [] req[r].op = "createCertification" ->
           {c \in certifications : c.title = req[r].body.title /\ c.issuer = req[r].body.issuer}
      [] req[r].op = "createJourneyItem" ->
           {j \in journey_items : j.title = req[r].body.title
                                    /\ j.company_name = req[r].body.company_name}

\* C27: the duplicate check of a create, its query answered, ends in Conflict
\* (400, nothing inserted) whenever at least one record with the requested
\* natural key is stored, also when more than one is
C27_DuplicatesAreDetected ==
    [][\A r \in Reqs :
          (/\ pc[r] \in {"c_check", "cc_check", "jc_check"}
           /\ pc'[r] # pc[r]
           /\ req'[r].calls = <<Call("select", 0, TRUE)>>
           /\ KeyRows(r) # {})
          => (pc'[r] = "done" /\ Sent(r)'.status = 400 /\ UNCHANGED stores)]_vars

\* no request is under way
Completed == \A r \in Reqs : pc[r] \in {"idle", "done"}

\* the blobs the image_url of a stored project refers to
Referenced == {extractFilenameFromUrl(p.image_url) : p \in {q \in projects : q.image_url # NoImage}}

\* C28: after any completed sequence of createProject, updateProject and
\* deleteProject requests, failed inserts, updates and deletes included, every
\* project with an image_url refers to a blob that is in the blob store
C28_NoDanglingImage == Completed => Referenced \subseteq blobs

\* every request that arrived is still in its task slot, with its calls
HistoryVisible == arrived = Cardinality({r \in Reqs : req[r].op # "none"})

\* every delete at the blob store succeeded
RemovesOk == \A r \in Reqs : \A i \in CallsOf(r, "remove") : req[r].calls[i].ok

\* the projects whose image_url refers to blob b
ReferencesTo(b) ==
    {p \in projects : p.image_url # NoImage /\ extractFilenameFromUrl(p.image_url) = b}

\* C29: when all requests have completed and every delete at the blob store
\* succeeded, every blob in the blob store is referenced by the image_url of
\* exactly one project, also after updates and deletes of one project that overlap
C29_NoOrphanedBlob ==
    (Completed /\ HistoryVisible /\ RemovesOk) =>
        \A b \in blobs : Cardinality(ReferencesTo(b)) = 1

\* the dates the body supplies are whole days: the stored DATE is the date sent
WholeDays(body) ==
    /\ Has(body, "start_date") => DateString(body.start_date) = body.start_date
    /\ (Has(body, "end_date") /\ body.end_date # NoDate) => DateString(body.end_date) = body.end_date

\* C30: with updateJourneyItem requests on one item that overlap (one changing
\* only start_date, another only end_date), each checked against the values of
\* its own lookup, every journey item with an end_date keeps end_date >
\* start_date: an update that passed its date check does not break the order
C30_DatesStayOrdered ==
    [][\A r \in Reqs :
          (/\ C15_StoredRange
           /\ pc[r] = "ju_update" /\ pc'[r] = "done"
           /\ WholeDays(req[r].body))
          => C15_StoredRange']_vars
====
